---------------------------- MODULE Spec2Model ----------------------------
(***************************************************************************)
(* A model of the read path of mini-lsm: the block codec, the block and    *)
(* SST iterators, the SST builder, the memtable and the two merge          *)
(* iterators.  Keys and values are byte sequences (sequences of numbers    *)
(* 0..255) compared lexicographically, as Rust compares &[u8].             *)
(*                                                                         *)
(* Each component has its own specification (SpecMerge, SpecTwoMerge, ...) *)
(* over the shared variables; the variables of the other components stay   *)
(* at their idle value.                                                    *)
(***************************************************************************)
EXTENDS Integers, Sequences, FiniteSets, TLC

VARIABLES
    \* MergeIterator and its inputs
    mi_in,        \* the inputs: a sequence of entry sequences (iters: Vec<Box<I>>)
    mi_pos,       \* the position of each input iterator (1-based; past the end = invalid)
    mi_heap,      \* MergeIterator.iters: the input numbers held in the BinaryHeap
    mi_cur,       \* MergeIterator.current: NoCur or [w |-> wrapper index, src |-> input number]
    mi_pc,        \* "new" before MergeIterator::create, "created" after
    mi_ret,       \* the Result of the last next(): "ok" or "err"
    mi_out,       \* history: the entries observed through key()/value() while valid
    mi_failed,    \* history: the inputs whose next() has returned Err
    mi_last_fail, \* history: the input whose Err the last next() returned (0: none)
    \* TwoMergeIterator and its inputs
    tm_a,         \* the entries behind input A
    tm_b,         \* the entries behind input B
    tm_pa,        \* the position of A (1-based; past the end = invalid)
    tm_pb,        \* the position of B
    tm_pc,        \* "idle" or "created"
    tm_ret,       \* the Result of the last next(): "ok" or "err"
    tm_out,       \* history: the entries observed through key()/value() while valid
    tm_failed,    \* history: the inputs ("a", "b") whose next() has returned Err
    \* BlockBuilder, Block and BlockIterator
    bb_size,      \* BlockBuilder.block_size
    bb_data,      \* BlockBuilder.data
    bb_offsets,   \* BlockBuilder.offsets
    bb_pc,        \* "idle", "building", "built" (build() consumed the builder), "panicked"
    bb_ret,       \* what the last add returned: "none", "true", "false"
    bb_ents,      \* history: the entries [key, value] the adds have accepted
    blk,          \* the Block build() returned (NoBlock before)
    blk_img,      \* the bytes Block::encode returned (<<>> before)
    blk_dec,      \* what Block::decode made of blk_img (NoDec before)
    bi,           \* the BlockIterator over the decoded block: [key, value, idx]
    bi_pc,        \* "none", "live", "panicked"
    bi_op,        \* history: the last iterator operation, [op, key]
    bi_prev,      \* history: the iterator before the last operation
    \* MemTable
    mt_map,       \* MemTable.map: the SkipMap as its entries [key, value] in key order
    mt_pc,        \* "idle" or "live"
    mt_got,       \* what the last get returned: [key, found, value]
    mt_got_at,    \* history: the number of puts that preceded the last get
    mt_puts,      \* history: the puts so far, [key, value], oldest first
    \* Block::decode on an altered image
    bc_img,       \* the image handed to decode (<<>>: none yet)
    bc_out,       \* how decode ended: "none", "returned" or "panicked"
    \* SsTable::open
    so,           \* what open returned on the built image: [pc, block_metas, block_meta_offset]
    \* MemTableIterator
    ms_it,        \* MemTableIterator: [lower, upper, head, item]
    ms_pc,        \* "none" before scan, "scanning" after; "flushing", "flushed" in flush
    ms_at,        \* history: the number of puts that preceded scan
    ms_map0,      \* history: the map when scan was called
    ms_out,       \* history: the entries the iterator stood on, up to its first invalid state
    ms_misused,   \* history: next() was called on the iterator while invalid
    \* SsTableBuilder, SsTable and SsTableIterator
    sb_size,      \* SsTableBuilder.block_size
    sb_meta,      \* SsTableBuilder.meta: BlockMetas [offset, first_key]
    sb_data,      \* SsTableBuilder.data
    sb_cur,       \* SsTableBuilder.current_block: the BlockBuilder's [data, offsets]
    sb_first_key, \* SsTableBuilder.first_key
    sb_pc,        \* "idle", "building", "built" (build consumed the builder), "panicked"
    sb_in,        \* history: the entries [key, value] given to add, in order
    sst,          \* the SsTable build returned: [file, block_metas, block_meta_offset]
    si,           \* the SsTableIterator: [block_idx, blk, it] (it: the BlockIterator on blk)
    si_pc,        \* "none", "live", "panicked"
    si_op,        \* history: the last iterator operation, [op, key]
    si_scan,      \* history: only seek_to_first and next() on a valid iterator so far
    si_out        \* history: the entries read since the last seek_to_first

mi_vars == <<mi_in, mi_pos, mi_heap, mi_cur, mi_pc, mi_ret, mi_out, mi_failed,
            mi_last_fail>>

tm_vars == <<tm_a, tm_b, tm_pa, tm_pb, tm_pc, tm_ret, tm_out, tm_failed>>

bb_vars == <<bb_size, bb_data, bb_offsets, bb_pc, bb_ret, bb_ents,
             blk, blk_img, blk_dec, bi, bi_pc, bi_op, bi_prev>>

mt_vars == <<mt_map, mt_pc, mt_got, mt_got_at, mt_puts>>
bc_vars == <<bc_img, bc_out>>
so_vars == <<so>>
ms_vars == <<ms_it, ms_pc, ms_at, ms_map0, ms_out, ms_misused>>

sb_vars == <<sb_size, sb_meta, sb_data, sb_cur, sb_first_key, sb_pc, sb_in, sst,
             si, si_pc, si_op, si_scan, si_out>>

vars == <<mi_vars, tm_vars, bb_vars, bc_vars, mt_vars, ms_vars, sb_vars, so_vars>>

\* What the operations of one component leave alone: the other components
mi_others == <<tm_vars, bb_vars, mt_vars, ms_vars, sb_vars, bc_vars, so_vars>>
tm_others == <<mi_vars, bb_vars, mt_vars, ms_vars, sb_vars, bc_vars, so_vars>>
bb_others == <<mi_vars, tm_vars, mt_vars, ms_vars, sb_vars, bc_vars, so_vars>>
mt_others == <<mi_vars, tm_vars, bb_vars, ms_vars, sb_vars, bc_vars, so_vars>>
bc_others == <<mi_vars, tm_vars, bb_vars, mt_vars, ms_vars, sb_vars, so_vars>>
so_others == <<mi_vars, tm_vars, bb_vars, bc_vars, mt_vars, ms_vars, sb_vars>>
ms_others == <<mi_vars, tm_vars, bb_vars, mt_vars, sb_vars, bc_vars, so_vars>>
sb_others == <<mi_vars, tm_vars, bb_vars, mt_vars, ms_vars, bc_vars, so_vars>>

-----------------------------------------------------------------------------
\* Bounds of the model

\* number of inputs of the N-way merge
MaxIters == 3
\* the merge inputs draw their keys from the one-byte keys <<1>> .. <<MaxMergeKey>>
MaxMergeKey == 2
\* the inputs of the two-way merge draw their keys from <<1>> .. <<MaxTwoKey>>
MaxTwoKey == 3
\* block keys are <<b>> and <<b, 1>> for b in 1..MaxBlockKey
MaxBlockKey == 2
\* values are 0..MaxValLen bytes long
MaxValLen == 1
\* the target block sizes tried: one entry per block, about two, about three
SmallBlockSize == 8
MidBlockSize == 18
LargeBlockSize == 27
\* memtable keys are <<1>> .. <<MaxMemKey>>
MaxMemKey == 2
\* table keys are <<1>> .. <<MaxSstKey>> and <<1, 1>>
MaxSstKey == 2
\* number of puts followed
MaxPuts == 3
\* a target block size above the range of u16
WideBlockSize == 140000

-----------------------------------------------------------------------------
\* Program constants

SIZEOF_U16 == 2
SIZEOF_U32 == 4
SIZEOF_U64 == 8
\* u16::MAX + 1: the least length and the least offset that `as u16` changes
WideLen == 65536
\* std::usize::MAX, all bits set: written as two's complement -1, so that
\* adding 1 to it wraps to 0 as it does in a release build.
UsizeMax == -1

-----------------------------------------------------------------------------
\* Byte sequences and their order (slice comparison: <[u8] as Ord>::cmp)

RECURSIVE LexCmp(_, _)
LexCmp(a, b) ==
    IF a = <<>> /\ b = <<>> THEN "Equal"
    ELSE IF a = <<>> THEN "Less"
    ELSE IF b = <<>> THEN "Greater"
    ELSE IF Head(a) < Head(b) THEN "Less"
    ELSE IF Head(a) > Head(b) THEN "Greater"
    ELSE LexCmp(Tail(a), Tail(b))

LexLess(a, b) == LexCmp(a, b) = "Less"
LexLeq(a, b) == LexCmp(a, b) # "Greater"

\* The least key of a non-empty set of keys
MinKey(S) == CHOOSE k \in S : \A j \in S : LexLeq(k, j)

\* The keys of S in strictly increasing order
RECURSIVE SortedKeys(_)
SortedKeys(S) ==
    IF S = {} THEN <<>>
    ELSE LET m == MinKey(S) IN <<m>> \o SortedKeys(S \ {m})

Range(s) == {s[i] : i \in DOMAIN s}

-----------------------------------------------------------------------------
\* An input iterator of the merge iterators: a StorageIterator over a sorted
\* list of entries [key, value], at position pos.

ItValid(ents, pos) == pos <= Len(ents)
ItKey(ents, pos) == ents[pos].key
ItValue(ents, pos) == ents[pos].value

\* The entries input number i holds for the keys of S; the value names the
\* input, so that the values of one key differ between the inputs.
InputOver(i, S) ==
    LET ks == SortedKeys(S)
    IN [j \in 1..Len(ks) |-> [key |-> ks[j], value |-> <<i, ks[j][1]>>]]

MergeKeys == {<<b>> : b \in 1..MaxMergeKey}

-----------------------------------------------------------------------------
\* MergeIterator

NoCur == [w |-> 0, src |-> 0]

\* HeapWrapper::partial_cmp on wrappers (index wa, key ka) and (wb, kb): the
\* order of (key, index), reversed for the max-heap.
WrapCmpPreferLarger(wa, ka, wb, kb) ==
    CASE LexCmp(ka, kb) = "Greater" -> "Less"
      [] LexCmp(ka, kb) = "Less" -> "Greater"
      [] OTHER -> IF wa < wb THEN "Less" ELSE IF wa > wb THEN "Greater" ELSE "Equal"

WrapCmp(wa, ka, wb, kb) ==
    CASE LexCmp(ka, kb) = "Greater" -> "Less"
      [] LexCmp(ka, kb) = "Less" -> "Greater"
      [] OTHER -> IF wa < wb THEN "Greater" ELSE IF wa > wb THEN "Less" ELSE "Equal"

\* BinaryHeap::peek / pop: the greatest wrapper of the heap.  An input pushed
\* at enumerate index idx is input number idx + 1 of mi_in.
HeapTop(heap, pos) ==
    CHOOSE t \in heap : \A u \in heap :
        WrapCmp(t - 1, ItKey(mi_in[t], pos[t]), u - 1, ItKey(mi_in[u], pos[u])) # "Less"

\* MergeIterator::create, a loop that pushes no input once it has seen an
\* invalid one
CreateVisitStopsAtInvalid(prev, n) ==
    IF ItValid(mi_in[n], mi_pos[n]) /\ prev.cur = NoCur
    THEN [heap |-> prev.heap \cup {n}, cur |-> prev.cur]
    ELSE IF prev.heap = {}
    THEN [heap |-> prev.heap, cur |-> [w |-> 0, src |-> n]]
    ELSE prev

\* MergeIterator::create, the loop over the inputs: the heap and current after
\* the inputs 1..n have been visited.
CreateVisit(prev, n) ==
    IF ItValid(mi_in[n], mi_pos[n])
    THEN [heap |-> prev.heap \cup {n}, cur |-> prev.cur]
    ELSE IF prev.heap = {}
    THEN [heap |-> prev.heap, cur |-> [w |-> 0, src |-> n]]
    ELSE prev

RECURSIVE CreateLoop(_)
CreateLoop(n) ==
    IF n = 0 THEN [heap |-> {}, cur |-> NoCur]
    ELSE CreateVisit(CreateLoop(n - 1), n)

MiIsValid(cur, pos) ==
    IF cur = NoCur THEN FALSE ELSE ItValid(mi_in[cur.src], pos[cur.src])

MiKey == ItKey(mi_in[mi_cur.src], mi_pos[mi_cur.src])
MiValue == ItValue(mi_in[mi_cur.src], mi_pos[mi_cur.src])

MergeCreate ==
    /\ mi_pc = "new"
    /\ \E l \in {CreateLoop(Len(mi_in))} :
       \E cur \in {IF l.heap # {}
                   THEN LET t == HeapTop(l.heap, mi_pos) IN [w |-> t - 1, src |-> t]
                   ELSE l.cur} :
          /\ mi_heap' = IF l.heap # {} THEN l.heap \ {cur.src} ELSE l.heap
          /\ mi_cur' = cur
          /\ mi_out' = IF MiIsValid(cur, mi_pos)
                       THEN <<mi_in[cur.src][mi_pos[cur.src]]>>
                       ELSE <<>>
    /\ mi_pc' = "created"
    /\ mi_ret' = "ok"
    /\ UNCHANGED <<mi_in, mi_pos, mi_failed, mi_last_fail>>
    /\ UNCHANGED mi_others

\* MergeIterator::next, a loop that returns the error of a heap iterator
\* standing on current's key before it advances any other
RECURSIVE SkipLoopFailsFirst(_, _, _, _)
SkipLoopFailsFirst(heap, pos, curKey, fail) ==
    IF heap = {} THEN [heap |-> heap, pos |-> pos, err |-> FALSE]
    ELSE LET t == HeapTop(heap, pos)
         IN IF ItKey(mi_in[t], pos[t]) = curKey
            THEN IF fail \in heap /\ ItKey(mi_in[fail], pos[fail]) = curKey
                 THEN [heap |-> heap \ {fail}, pos |-> pos, err |-> TRUE]
                 ELSE LET p == [pos EXCEPT ![t] = @ + 1]
                      IN IF ~ItValid(mi_in[t], p[t])
                         THEN SkipLoopFailsFirst(heap \ {t}, p, curKey, fail)
                         ELSE SkipLoopFailsFirst(heap, p, curKey, fail)
            ELSE [heap |-> heap, pos |-> pos, err |-> FALSE]

\* MergeIterator::next, a loop that pops a heap iterator standing on current's
\* key instead of advancing it
RECURSIVE SkipLoopPopsDuplicate(_, _, _, _)
SkipLoopPopsDuplicate(heap, pos, curKey, fail) ==
    IF heap = {} THEN [heap |-> heap, pos |-> pos, err |-> FALSE]
    ELSE LET t == HeapTop(heap, pos)
         IN IF ItKey(mi_in[t], pos[t]) = curKey
            THEN IF fail = t
                 THEN [heap |-> heap \ {t}, pos |-> pos, err |-> TRUE]
                 ELSE SkipLoopPopsDuplicate(heap \ {t}, pos, curKey, fail)
            ELSE [heap |-> heap, pos |-> pos, err |-> FALSE]

\* MergeIterator::next with an if in place of the while: one heap iterator
\* standing on current's key is advanced, the others are left
SkipLoopOnePass(heap, pos, curKey, fail) ==
    IF heap = {} THEN [heap |-> heap, pos |-> pos, err |-> FALSE]
    ELSE LET t == HeapTop(heap, pos)
         IN IF ItKey(mi_in[t], pos[t]) = curKey
            THEN IF fail = t
                 THEN [heap |-> heap \ {t}, pos |-> pos, err |-> TRUE]
                 ELSE LET p == [pos EXCEPT ![t] = @ + 1]
                      IN IF ~ItValid(mi_in[t], p[t])
                         THEN [heap |-> heap \ {t}, pos |-> p, err |-> FALSE]
                         ELSE [heap |-> heap, pos |-> p, err |-> FALSE]
            ELSE [heap |-> heap, pos |-> pos, err |-> FALSE]

\* MergeIterator::next, the loop that advances the heap iterators standing on
\* current's key.  fail is the input whose next() returns Err in this call (0:
\* none).  The result is the heap, the positions and whether the loop returned
\* the error.
RECURSIVE SkipLoop(_, _, _, _)
SkipLoop(heap, pos, curKey, fail) ==
    IF heap = {} THEN [heap |-> heap, pos |-> pos, err |-> FALSE]
    ELSE LET t == HeapTop(heap, pos)
         IN IF ItKey(mi_in[t], pos[t]) = curKey
            THEN IF fail = t
                 THEN [heap |-> heap \ {t}, pos |-> pos, err |-> TRUE]
                 ELSE LET p == [pos EXCEPT ![t] = @ + 1]
                      IN IF ~ItValid(mi_in[t], p[t])
                         THEN SkipLoop(heap \ {t}, p, curKey, fail)
                         ELSE SkipLoop(heap, p, curKey, fail)
            ELSE [heap |-> heap, pos |-> pos, err |-> FALSE]

\* MergeIterator::next after the loop, without the swap with the heap's top
MergeAdvanceNoSwap(heap, pos, cur, fail) ==
    IF fail = cur.src
    THEN [heap |-> heap, pos |-> pos, cur |-> cur, err |-> TRUE]
    ELSE LET p == [pos EXCEPT ![cur.src] = @ + 1]
         IN IF ~ItValid(mi_in[cur.src], p[cur.src]) /\ heap # {}
            THEN LET t == HeapTop(heap, p)
                 IN [heap |-> heap \ {t}, pos |-> p,
                     cur |-> [w |-> t - 1, src |-> t], err |-> FALSE]
            ELSE [heap |-> heap, pos |-> p, cur |-> cur, err |-> FALSE]

\* MergeIterator::next after the loop: advance current, then replace it from
\* the heap or swap it with the heap's top.
MergeAdvance(heap, pos, cur, fail) ==
    IF fail = cur.src
    THEN [heap |-> heap, pos |-> pos, cur |-> cur, err |-> TRUE]
    ELSE LET p == [pos EXCEPT ![cur.src] = @ + 1]
         IN IF ~ItValid(mi_in[cur.src], p[cur.src])
            THEN IF heap # {}
                 THEN LET t == HeapTop(heap, p)
                      IN [heap |-> heap \ {t}, pos |-> p,
                          cur |-> [w |-> t - 1, src |-> t], err |-> FALSE]
                 ELSE [heap |-> heap, pos |-> p, cur |-> cur, err |-> FALSE]
            ELSE IF heap # {}
                 THEN LET t == HeapTop(heap, p)
                      IN IF WrapCmp(cur.w, ItKey(mi_in[cur.src], p[cur.src]),
                                    t - 1, ItKey(mi_in[t], p[t])) = "Less"
                         THEN [heap |-> (heap \ {t}) \cup {cur.src}, pos |-> p,
                               cur |-> [w |-> t - 1, src |-> t], err |-> FALSE]
                         ELSE [heap |-> heap, pos |-> p, cur |-> cur, err |-> FALSE]
                 ELSE [heap |-> heap, pos |-> p, cur |-> cur, err |-> FALSE]

MergeNext(fail) ==
    /\ mi_pc = "created"
    /\ MiIsValid(mi_cur, mi_pos)
    /\ \E s \in {SkipLoop(mi_heap, mi_pos, MiKey, fail)} :
       \E r \in {IF s.err
                 THEN [heap |-> s.heap, pos |-> s.pos, cur |-> mi_cur, err |-> TRUE]
                 ELSE MergeAdvance(s.heap, s.pos, mi_cur, fail)} :
          /\ mi_heap' = r.heap
          /\ mi_pos' = r.pos
          /\ mi_cur' = r.cur
          /\ mi_ret' = IF r.err THEN "err" ELSE "ok"
          /\ mi_failed' = IF r.err THEN mi_failed \cup {fail} ELSE mi_failed
          /\ mi_last_fail' = IF r.err THEN fail ELSE 0
          /\ mi_out' = IF ~r.err /\ MiIsValid(r.cur, r.pos)
                       THEN Append(mi_out, mi_in[r.cur.src][r.pos[r.cur.src]])
                       ELSE mi_out
    /\ UNCHANGED <<mi_in, mi_pc>>
    /\ UNCHANGED mi_others

MergeIdle ==
    /\ mi_in = <<>>
    /\ mi_pos = <<>>
    /\ mi_heap = {}
    /\ mi_cur = NoCur
    /\ mi_pc = "idle"
    /\ mi_ret = "ok"
    /\ mi_out = <<>>
    /\ mi_failed = {}
    /\ mi_last_fail = 0

MergeInit ==
    /\ \E n \in 0..MaxIters :
         \E ks \in [1..n -> SUBSET MergeKeys] :
            mi_in = [i \in 1..n |-> InputOver(i, ks[i])]
    /\ mi_pos = [i \in 1..Len(mi_in) |-> 1]
    /\ mi_heap = {}
    /\ mi_cur = NoCur
    /\ mi_pc = "new"
    /\ mi_ret = "ok"
    /\ mi_out = <<>>
    /\ mi_failed = {}
    /\ mi_last_fail = 0

-----------------------------------------------------------------------------
\* TwoMergeIterator

TwoKeys == {<<b>> : b \in 1..MaxTwoKey}

\* The entries of input A ("a") or B ("b") over the keys of S
TwoInputOver(side, S) ==
    LET ks == SortedKeys(S)
    IN [j \in 1..Len(ks) |->
          [key |-> ks[j], value |-> <<IF side = "a" THEN 1 ELSE 2, ks[j][1]>>]]

TwoPreferAStrict(pa, pb) ==
    IF ItValid(tm_a, pa) /\ ItValid(tm_b, pb)
    THEN LexLess(ItKey(tm_a, pa), ItKey(tm_b, pb))
    ELSE ItValid(tm_a, pa)

TwoPreferA(pa, pb) ==
    IF ItValid(tm_a, pa) /\ ItValid(tm_b, pb)
    THEN LexLeq(ItKey(tm_a, pa), ItKey(tm_b, pb))
    ELSE ItValid(tm_a, pa)

TwoKey(pa, pb) == IF TwoPreferA(pa, pb) THEN ItKey(tm_a, pa) ELSE ItKey(tm_b, pb)
TwoValue(pa, pb) == IF TwoPreferA(pa, pb) THEN ItValue(tm_a, pa) ELSE ItValue(tm_b, pb)
TwoIsValid(pa, pb) == ItValid(tm_a, pa) \/ ItValid(tm_b, pb)

\* TwoMergeIterator::next: the positions after the call and whether it returned
\* an error.  fail is the input whose next() returns Err in this call.
TwoAdvanceKeepB(pa, pb, fail) ==
    IF ~ItValid(tm_b, pb)
    THEN IF fail = "a" THEN [pa |-> pa, pb |-> pb, err |-> "a"]
         ELSE [pa |-> pa + 1, pb |-> pb, err |-> "none"]
    ELSE IF ~ItValid(tm_a, pa)
    THEN IF fail = "b" THEN [pa |-> pa, pb |-> pb, err |-> "b"]
         ELSE [pa |-> pa, pb |-> pb + 1, err |-> "none"]
    ELSE IF LexLeq(ItKey(tm_a, pa), ItKey(tm_b, pb))
    THEN IF fail = "a" THEN [pa |-> pa, pb |-> pb, err |-> "a"]
         ELSE [pa |-> pa + 1, pb |-> pb, err |-> "none"]
    ELSE IF fail = "b" THEN [pa |-> pa, pb |-> pb, err |-> "b"]
         ELSE [pa |-> pa, pb |-> pb + 1, err |-> "none"]

TwoAdvance(pa, pb, fail) ==
    IF ~ItValid(tm_b, pb)
    THEN IF fail = "a" THEN [pa |-> pa, pb |-> pb, err |-> "a"]
         ELSE [pa |-> pa + 1, pb |-> pb, err |-> "none"]
    ELSE IF ~ItValid(tm_a, pa)
    THEN IF fail = "b" THEN [pa |-> pa, pb |-> pb, err |-> "b"]
         ELSE [pa |-> pa, pb |-> pb + 1, err |-> "none"]
    ELSE IF ItKey(tm_a, pa) = ItKey(tm_b, pb)
    THEN IF fail = "a" THEN [pa |-> pa, pb |-> pb, err |-> "a"]
         ELSE IF fail = "b" THEN [pa |-> pa + 1, pb |-> pb, err |-> "b"]
         ELSE [pa |-> pa + 1, pb |-> pb + 1, err |-> "none"]
    ELSE IF LexLess(ItKey(tm_a, pa), ItKey(tm_b, pb))
    THEN IF fail = "a" THEN [pa |-> pa, pb |-> pb, err |-> "a"]
         ELSE [pa |-> pa + 1, pb |-> pb, err |-> "none"]
    ELSE IF fail = "b" THEN [pa |-> pa, pb |-> pb, err |-> "b"]
         ELSE [pa |-> pa, pb |-> pb + 1, err |-> "none"]

TwoNext(fail) ==
    /\ tm_pc = "created"
    /\ TwoIsValid(tm_pa, tm_pb)
    /\ \E r \in {TwoAdvance(tm_pa, tm_pb, fail)} :
          /\ tm_pa' = r.pa
          /\ tm_pb' = r.pb
          /\ tm_ret' = IF r.err = "none" THEN "ok" ELSE "err"
          /\ tm_failed' = IF r.err = "none" THEN tm_failed ELSE tm_failed \cup {r.err}
          /\ tm_out' = IF r.err = "none" /\ TwoIsValid(r.pa, r.pb)
                       THEN Append(tm_out, [key |-> TwoKey(r.pa, r.pb),
                                            value |-> TwoValue(r.pa, r.pb)])
                       ELSE tm_out
    /\ UNCHANGED <<tm_a, tm_b, tm_pc>>
    /\ UNCHANGED tm_others

TwoIdle ==
    /\ tm_a = <<>>
    /\ tm_b = <<>>
    /\ tm_pa = 1
    /\ tm_pb = 1
    /\ tm_pc = "idle"
    /\ tm_ret = "ok"
    /\ tm_out = <<>>
    /\ tm_failed = {}

\* TwoMergeIterator::create(a, b) over two inputs standing on their first entry
TwoInit ==
    /\ \E sa \in SUBSET TwoKeys, sb \in SUBSET TwoKeys :
          /\ tm_a = TwoInputOver("a", sa)
          /\ tm_b = TwoInputOver("b", sb)
    /\ tm_pa = 1
    /\ tm_pb = 1
    /\ tm_pc = "created"
    /\ tm_ret = "ok"
    /\ tm_out = IF TwoIsValid(1, 1)
                THEN <<[key |-> TwoKey(1, 1), value |-> TwoValue(1, 1)]>>
                ELSE <<>>
    /\ tm_failed = {}

-----------------------------------------------------------------------------
\* Bytes: the big-endian integers of bytes::BufMut / bytes::Buf

\* n as u16
AsU16(n) == n % 65536

\* put_u16
PutU16(n) == <<n \div 256, n % 256>>

\* get_u16 on the two bytes b[i], b[i+1] (1-based)
GetU16(b, i) == b[i] * 256 + b[i + 1]

\* the concatenation of put_u16 over a sequence of u16s
RECURSIVE PutU16s(_)
PutU16s(ns) == IF ns = <<>> THEN <<>> ELSE PutU16(Head(ns)) \o PutU16s(Tail(ns))

\* chunks(SIZEOF_U16).map(get_u16) over the bytes b
GetU16s(b) == [i \in 1..(Len(b) \div SIZEOF_U16) |-> GetU16(b, 2 * i - 1)]

\* The 64-bit DefaultHasher is not modelled bit by bit: HashStream stands for
\* it as a deterministic function of the values written to the hasher, folded
\* into 16 bits; put_u64 writes it into 8 bytes.
RECURSIVE HashStream(_, _)
HashStream(h, xs) ==
    IF xs = <<>> THEN h ELSE HashStream((h * 31 + Head(xs) + 1) % 65521, Tail(xs))

PutU64(n) == <<0, 0, 0, 0, 0, 0, n \div 256, n % 256>>
GetU64(b, i) == IF \A j \in 0..5 : b[i + j] = 0 THEN b[i + 6] * 256 + b[i + 7] ELSE 65536

-----------------------------------------------------------------------------
\* Block and BlockBuilder

BlockKeys == {<<b>> : b \in 1..MaxBlockKey} \cup {<<b, 1>> : b \in 1..MaxBlockKey}
BlockValues == {[i \in 1..n |-> 7] : n \in 0..MaxValLen}
BlockSizes == {SmallBlockSize, MidBlockSize, LargeBlockSize}

NoBlock == [data |-> <<>>, offsets |-> <<>>]
NoDec == [ok |-> FALSE, data |-> <<>>, offsets |-> <<>>]

\* Block::hash_default: data.hash then offsets.hash, each a length and the elements
HashDefault(data, offsets) ==
    HashStream(0, <<Len(data)>> \o data \o <<Len(offsets)>> \o offsets)

\* Block::encode
Encode(b) ==
    b.data \o PutU16s(b.offsets) \o PutU16(AsU16(Len(b.offsets)))
           \o PutU64(HashDefault(b.data, b.offsets))

\* Block::decode with the offset section taken as num_offsets bytes, not
\* num_offsets * SIZEOF_U16
DecodeUnscaled(img) ==
    LET checksum_start == Len(img) - SIZEOF_U64
        checksum == GetU64(img, checksum_start + 1)
        num_offsets_start == checksum_start - SIZEOF_U16
        num_offsets == GetU16(img, num_offsets_start + 1)
        offsets_start == num_offsets_start - num_offsets
        offsets == GetU16s(SubSeq(img, offsets_start + 1, num_offsets_start))
        data == SubSeq(img, 1, offsets_start)
    IN IF num_offsets = Len(offsets) /\ checksum = HashDefault(data, offsets)
       THEN [ok |-> TRUE, data |-> data, offsets |-> offsets]
       ELSE NoDec

\* Block::decode; ok is FALSE when one of its assertions fails
Decode(img) ==
    LET checksum_start == Len(img) - SIZEOF_U64
        checksum == GetU64(img, checksum_start + 1)
        num_offsets_start == checksum_start - SIZEOF_U16
        num_offsets == GetU16(img, num_offsets_start + 1)
        offsets_start == num_offsets_start - (num_offsets * SIZEOF_U16)
        offsets == GetU16s(SubSeq(img, offsets_start + 1, num_offsets_start))
        data == SubSeq(img, 1, offsets_start)
    IN IF num_offsets = Len(offsets) /\ checksum = HashDefault(data, offsets)
       THEN [ok |-> TRUE, data |-> data, offsets |-> offsets]
       ELSE NoDec

\* BlockBuilder::estimated_size
EstimatedSize(data, offsets) == Len(data) + (Len(offsets) * SIZEOF_U16) + SIZEOF_U16

\* BlockBuilder::add, the size it projects
NewSize(data, offsets, key, value) ==
    EstimatedSize(data, offsets) + Len(key) + Len(value) + (3 * SIZEOF_U16)

\* BlockBuilder::add with a test that turns away the first entry too
AddRejectsFirstToo(data, offsets, size, key, value) ==
    NewSize(data, offsets, key, value) > size

\* BlockBuilder::add, its test for a full block
AddRejects(data, offsets, size, key, value) ==
    NewSize(data, offsets, key, value) > size /\ offsets # <<>>

\* BlockBuilder::add, the bytes it appends to data
EntryBytes(key, value) ==
    PutU16(AsU16(Len(key))) \o key \o PutU16(AsU16(Len(value))) \o value

\* BlockBuilder::new(block_size)
BlockNew ==
    /\ bb_size \in BlockSizes
    /\ bb_data = <<>>
    /\ bb_offsets = <<>>
    /\ bb_pc = "building"
    /\ bb_ret = "none"
    /\ bb_ents = <<>>
    /\ blk = NoBlock
    /\ blk_img = <<>>
    /\ blk_dec = NoDec
    /\ bi = [key |-> <<>>, value |-> <<>>, idx |-> 0]
    /\ bi_pc = "none"
    /\ bi_op = [op |-> "none", key |-> <<>>]
    /\ bi_prev = [key |-> <<>>, value |-> <<>>, idx |-> 0]

BlockIdle ==
    /\ bb_size = 0
    /\ bb_data = <<>>
    /\ bb_offsets = <<>>
    /\ bb_pc = "idle"
    /\ bb_ret = "none"
    /\ bb_ents = <<>>
    /\ blk = NoBlock
    /\ blk_img = <<>>
    /\ blk_dec = NoDec
    /\ bi = [key |-> <<>>, value |-> <<>>, idx |-> 0]
    /\ bi_pc = "none"
    /\ bi_op = [op |-> "none", key |-> <<>>]
    /\ bi_prev = [key |-> <<>>, value |-> <<>>, idx |-> 0]

\* BlockBuilder::add(key, value); the callers add keys in increasing order
BlockAdd(key, value) ==
    /\ bb_pc = "building"
    /\ bb_ents # <<>> => LexLess(bb_ents[Len(bb_ents)].key, key)
    /\ IF AddRejects(bb_data, bb_offsets, bb_size, key, value)
       THEN /\ bb_ret' = "false"
            /\ UNCHANGED <<bb_data, bb_offsets, bb_ents>>
       ELSE /\ bb_offsets' = Append(bb_offsets, AsU16(Len(bb_data)))
            /\ bb_data' = bb_data \o EntryBytes(key, value)
            /\ bb_ents' = Append(bb_ents, [key |-> key, value |-> value])
            /\ bb_ret' = "true"
    /\ UNCHANGED <<bb_size, bb_pc, blk, blk_img, blk_dec, bi, bi_pc, bi_op, bi_prev>>
    /\ UNCHANGED bb_others

\* BlockBuilder::build
BlockBuild ==
    /\ bb_pc = "building"
    /\ IF bb_offsets = <<>>
       THEN bb_pc' = "panicked" /\ UNCHANGED blk
       ELSE bb_pc' = "built" /\ blk' = [data |-> bb_data, offsets |-> bb_offsets]
    /\ UNCHANGED <<bb_size, bb_data, bb_offsets, bb_ret, bb_ents,
                   blk_img, blk_dec, bi, bi_pc, bi_op, bi_prev>>
    /\ UNCHANGED bb_others

\* A value of WideLen bytes, the least length `as u16` changes, and a target
\* size that lets entries follow it in one block
WideValue == [i \in 1..WideLen |-> 7]
WideBlockValues == {<<>>, WideValue}
WideBlockSizes == {SmallBlockSize, WideBlockSize}

\* BlockBuilder::new(block_size), block_size a usize
BlockNewWide ==
    /\ bb_size \in WideBlockSizes
    /\ bb_data = <<>>
    /\ bb_offsets = <<>>
    /\ bb_pc = "building"
    /\ bb_ret = "none"
    /\ bb_ents = <<>>
    /\ blk = NoBlock
    /\ blk_img = <<>>
    /\ blk_dec = NoDec
    /\ bi = [key |-> <<>>, value |-> <<>>, idx |-> 0]
    /\ bi_pc = "none"
    /\ bi_op = [op |-> "none", key |-> <<>>]
    /\ bi_prev = [key |-> <<>>, value |-> <<>>, idx |-> 0]

\* Block::encode on the built block
BlockEncode ==
    /\ bb_pc = "built"
    /\ blk_img = <<>>
    /\ blk_img' = Encode(blk)
    /\ UNCHANGED <<bb_size, bb_data, bb_offsets, bb_pc, bb_ret, bb_ents,
                   blk, blk_dec, bi, bi_pc, bi_op, bi_prev>>
    /\ UNCHANGED bb_others

\* Block::decode on the encoded bytes
BlockDecode ==
    /\ blk_img # <<>>
    /\ blk_dec = NoDec
    /\ blk_dec' = Decode(blk_img)
    /\ UNCHANGED <<bb_size, bb_data, bb_offsets, bb_pc, bb_ret, bb_ents,
                   blk, blk_img, bi, bi_pc, bi_op, bi_prev>>
    /\ UNCHANGED bb_others

\* The image img with the byte at pos (from 1) raised by d, modulo 256
AlterByte(img, pos, d) == [img EXCEPT ![pos] = (img[pos] + d) % 256]

\* How a call of Block::decode ends.  decode returns Self, not a Result: it
\* either returns the block or panics in one of its assert_eq!.
DecodeOutcome(img) == IF Decode(img).ok THEN "returned" ELSE "panicked"

BlockCorruptIdle ==
    /\ bc_img = <<>>
    /\ bc_out = "none"

\* Block::decode on the encoded bytes with one byte of the trailing u64
\* checksum altered (pos counts from the end: 1 is the last byte)
BlockDecodeAltered(pos, d) ==
    /\ blk_img # <<>>
    /\ bc_out = "none"
    /\ \E img \in {AlterByte(blk_img, Len(blk_img) + 1 - pos, d)} :
          /\ bc_img' = img
          /\ bc_out' = DecodeOutcome(img)
    /\ UNCHANGED bb_vars
    /\ UNCHANGED bc_others

-----------------------------------------------------------------------------
\* BlockIterator over the block b = [data, offsets]; it = [key, value, idx]

BiIsValid(it) == it.key # <<>>

\* BlockIterator::seek_to_offset
SeekToOffset(b, it, offset) ==
    LET entry == SubSeq(b.data, offset + 1, Len(b.data))
        key_len == GetU16(entry, 1)
        key == SubSeq(entry, 3, 2 + key_len)
        value_len == GetU16(entry, 2 + key_len + 1)
        value == SubSeq(entry, 4 + key_len + 1, 4 + key_len + value_len)
    IN [it EXCEPT !.key = key, !.value = value]

\* BlockIterator::seek_to_idx
SeekToIdx(b, it, idx) ==
    IF idx >= Len(b.offsets)
    THEN [key |-> <<>>, value |-> <<>>, idx |-> UsizeMax]
    ELSE SeekToOffset(b, [it EXCEPT !.idx = idx], b.offsets[idx + 1])

\* BlockIterator::seek_to_key, its binary search, with high = mid - 1 on Greater
RECURSIVE BinSearchHighMinusOne(_, _, _, _, _)
BinSearchHighMinusOne(b, it, key, low, high) ==
    IF low < high
    THEN LET mid == (low + high) \div 2
             probe == SeekToIdx(b, it, mid)
             c == LexCmp(probe.key, key)
         IN IF c = "Less" THEN BinSearchHighMinusOne(b, probe, key, mid + 1, high)
            ELSE IF c = "Greater" THEN BinSearchHighMinusOne(b, probe, key, low, mid - 1)
            ELSE probe
    ELSE SeekToIdx(b, it, low)

\* BlockIterator::seek_to_key, its binary search over [low, high)
RECURSIVE BinSearch(_, _, _, _, _)
BinSearch(b, it, key, low, high) ==
    IF low < high
    THEN LET mid == (low + high) \div 2
             probe == SeekToIdx(b, it, mid)
             c == LexCmp(probe.key, key)
         IN IF c = "Less" THEN BinSearch(b, probe, key, mid + 1, high)
            ELSE IF c = "Greater" THEN BinSearch(b, probe, key, low, mid)
            ELSE probe
    ELSE SeekToIdx(b, it, low)

\* BlockIterator::seek_to_key
SeekToKey(b, it, key) ==
    IF BiIsValid(it) /\ LexCmp(it.key, key) = "Equal"
    THEN it
    ELSE BinSearch(b, it, key, 0, Len(b.offsets))

\* BlockIterator::new
BiNew == [key |-> <<>>, value |-> <<>>, idx |-> 0]

bi_frame == <<bb_size, bb_data, bb_offsets, bb_pc, bb_ret, bb_ents, blk, blk_img, blk_dec>>

\* BlockIterator::create_and_seek_to_first on the decoded block
BiCreateAndSeekToFirst ==
    /\ blk_dec.ok
    /\ bi_pc = "none"
    /\ bi' = SeekToIdx(blk_dec, BiNew, 0)
    /\ bi_pc' = "live"
    /\ bi_op' = [op |-> "first", key |-> <<>>]
    /\ bi_prev' = BiNew
    /\ UNCHANGED bi_frame
    /\ UNCHANGED bb_others

\* BlockIterator::create_and_seek_to_key on the decoded block
BiCreateAndSeekToKey(key) ==
    /\ blk_dec.ok
    /\ bi_pc = "none"
    /\ bi' = SeekToKey(blk_dec, BiNew, key)
    /\ bi_pc' = "live"
    /\ bi_op' = [op |-> "seek", key |-> key]
    /\ bi_prev' = BiNew
    /\ UNCHANGED bi_frame
    /\ UNCHANGED bb_others

\* BlockIterator::seek_to_first
BiSeekToFirst ==
    /\ bi_pc = "live"
    /\ bi' = SeekToIdx(blk_dec, bi, 0)
    /\ bi_op' = [op |-> "first", key |-> <<>>]
    /\ bi_prev' = bi
    /\ UNCHANGED bi_pc
    /\ UNCHANGED bi_frame
    /\ UNCHANGED bb_others

\* BlockIterator::next.  On an invalid iterator idx is usize::MAX and idx + 1
\* overflows: a build with overflow checks panics, one without wraps to 0.
BiNext(checked) ==
    /\ bi_pc = "live"
    /\ IF bi.idx = UsizeMax /\ checked
       THEN bi_pc' = "panicked" /\ UNCHANGED bi
       ELSE bi' = SeekToIdx(blk_dec, bi, bi.idx + 1) /\ UNCHANGED bi_pc
    /\ bi_op' = [op |-> "next", key |-> <<>>]
    /\ bi_prev' = bi
    /\ UNCHANGED bi_frame
    /\ UNCHANGED bb_others

\* BlockIterator::seek_to_key
BiSeekToKey(key) ==
    /\ bi_pc = "live"
    /\ bi' = SeekToKey(blk_dec, bi, key)
    /\ bi_op' = [op |-> "seek", key |-> key]
    /\ bi_prev' = bi
    /\ UNCHANGED bi_pc
    /\ UNCHANGED bi_frame
    /\ UNCHANGED bb_others

-----------------------------------------------------------------------------
\* MemTable over crossbeam_skiplist::SkipMap, an ordered map with unique keys

MemKeys == {<<b>> : b \in 1..MaxMemKey}
MemValues == BlockValues

\* the entries of m with keys < k, and with keys > k
EntriesBelow(m, k) == SelectSeq(m, LAMBDA e : LexLess(e.key, k))
EntriesAbove(m, k) == SelectSeq(m, LAMBDA e : LexLess(k, e.key))

\* SkipMap::insert that leaves an entry already under the key in place
MapInsertKeepsOld(m, k, v) ==
    IF \E i \in DOMAIN m : m[i].key = k THEN m
    ELSE EntriesBelow(m, k) \o <<[key |-> k, value |-> v]>> \o EntriesAbove(m, k)

\* SkipMap::insert: an entry already under the key is removed, the new one is
\* linked in key order
MapInsert(m, k, v) ==
    EntriesBelow(m, k) \o <<[key |-> k, value |-> v]>> \o EntriesAbove(m, k)

\* SkipMap::get, then MemTable::get's map to the value
MapGet(m, k) ==
    IF \E i \in DOMAIN m : m[i].key = k
    THEN [key |-> k, found |-> TRUE, value |-> m[CHOOSE i \in DOMAIN m : m[i].key = k].value]
    ELSE [key |-> k, found |-> FALSE, value |-> <<>>]

NoGet == [key |-> <<>>, found |-> FALSE, value |-> <<>>]

\* MemTable::create
MemCreate ==
    /\ mt_map = <<>>
    /\ mt_pc = "live"
    /\ mt_got = NoGet
    /\ mt_got_at = 0
    /\ mt_puts = <<>>

MemIdle ==
    /\ mt_map = <<>>
    /\ mt_pc = "idle"
    /\ mt_got = NoGet
    /\ mt_got_at = 0
    /\ mt_puts = <<>>

\* MemTable::put
MemPut(key, value) ==
    /\ mt_pc = "live"
    /\ Len(mt_puts) < MaxPuts
    /\ mt_map' = MapInsert(mt_map, key, value)
    /\ mt_puts' = Append(mt_puts, [key |-> key, value |-> value])
    /\ UNCHANGED <<mt_pc, mt_got, mt_got_at>>
    /\ UNCHANGED mt_others

\* MemTable::get
MemGet(key) ==
    /\ mt_pc = "live"
    /\ mt_got' = MapGet(mt_map, key)
    /\ mt_got_at' = Len(mt_puts)
    /\ UNCHANGED <<mt_map, mt_pc, mt_puts>>
    /\ UNCHANGED mt_others

-----------------------------------------------------------------------------
\* MemTable::scan and MemTableIterator over crossbeam_skiplist::map::Range

\* std::ops::Bound over the keys
Unbounded == [kind |-> "Unbounded", key |-> <<>>]
Included(k) == [kind |-> "Included", key |-> k]
Excluded(k) == [kind |-> "Excluded", key |-> k]
MemBounds == {Unbounded} \cup {Included(k) : k \in MemKeys} \cup {Excluded(k) : k \in MemKeys}

\* the lower bound admits key
AboveLower(bound, key) ==
    CASE bound.kind = "Unbounded" -> TRUE
      [] bound.kind = "Included" -> LexLeq(bound.key, key)
      [] bound.kind = "Excluded" -> LexLess(bound.key, key)

\* an upper bound that admits the key of an Excluded bound
BelowUpperInclusive(bound, key) ==
    CASE bound.kind = "Unbounded" -> TRUE
      [] bound.kind = "Included" -> LexLeq(key, bound.key)
      [] bound.kind = "Excluded" -> LexLeq(key, bound.key)

\* the upper bound admits key
BelowUpper(bound, key) ==
    CASE bound.kind = "Unbounded" -> TRUE
      [] bound.kind = "Included" -> LexLeq(key, bound.key)
      [] bound.kind = "Excluded" -> LexLess(key, bound.key)

NoHead == [some |-> FALSE, key |-> <<>>]
NoItem == [key |-> <<>>, value |-> <<>>]
NoEntry == [some |-> FALSE, key |-> <<>>, value |-> <<>>]

\* the first entry of m among those at the indices S
FirstEntry(m, S) ==
    IF S = {} THEN NoEntry
    ELSE LET i == CHOOSE i \in S : \A j \in S : i <= j
         IN [some |-> TRUE, key |-> m[i].key, value |-> m[i].value]

\* a step from the entry under head that searches the map from its front for
\* an entry under another key
RangeSuccFromFront(m, lower, head) ==
    IF head.some
    THEN FirstEntry(m, {i \in DOMAIN m : m[i].key # head.key})
    ELSE FirstEntry(m, {i \in DOMAIN m : AboveLower(lower, m[i].key)})

\* Range::next, the entry it moves to: from the entry under head the next
\* entry now in the map, with no head the first entry the lower bound admits
RangeSucc(m, lower, head) ==
    IF head.some
    THEN FirstEntry(m, {i \in DOMAIN m : LexLess(head.key, m[i].key)})
    ELSE FirstEntry(m, {i \in DOMAIN m : AboveLower(lower, m[i].key)})

\* Range::next with MemTableIterator::entry_to_item: the iterator after it.
\* An entry the upper bound does not admit ends the range and clears head.
RangeNext(m, it) ==
    LET e == RangeSucc(m, it.lower, it.head)
    IN IF e.some /\ BelowUpper(it.upper, e.key)
       THEN [it EXCEPT !.head = [some |-> TRUE, key |-> e.key],
                       !.item = [key |-> e.key, value |-> e.value]]
       ELSE [it EXCEPT !.head = NoHead, !.item = NoItem]

\* MemTableIterator::is_valid
MsIsValid(it) == it.item.key # <<>>

NoScan == [lower |-> Unbounded, upper |-> Unbounded, head |-> NoHead, item |-> NoItem]

MemScanIdle ==
    /\ ms_it = NoScan
    /\ ms_pc = "none"
    /\ ms_at = 0
    /\ ms_map0 = <<>>
    /\ ms_out = <<>>
    /\ ms_misused = FALSE

\* MemTable::scan(lower, upper): the iterator is made and advanced once
MemScan(lower, upper) ==
    /\ mt_pc = "live"
    /\ ms_pc = "none"
    /\ \E it \in {RangeNext(mt_map, [lower |-> lower, upper |-> upper,
                                     head |-> NoHead, item |-> NoItem])} :
          /\ ms_it' = it
          /\ ms_out' = IF MsIsValid(it) THEN <<it.item>> ELSE <<>>
    /\ ms_pc' = "scanning"
    /\ ms_at' = Len(mt_puts)
    /\ ms_map0' = mt_map
    /\ ms_misused' = FALSE
    /\ UNCHANGED mt_vars
    /\ UNCHANGED ms_others

\* MemTableIterator::next.  On an exhausted iterator Range::next starts again
\* from the lower bound (restarts); the Iterator contract leaves open whether
\* an iterator that returned None returns Some later, so both are followed.
\* The scan is followed up to its first call on an invalid iterator.
MemIterNext(restarts) ==
    /\ ms_pc = "scanning"
    /\ ~ms_misused
    /\ \E it \in {IF ~MsIsValid(ms_it) /\ ~restarts
                  THEN ms_it ELSE RangeNext(mt_map, ms_it)} :
          /\ ms_it' = it
          /\ ms_out' = IF MsIsValid(it) /\ MsIsValid(ms_it) /\ ~ms_misused
                        THEN Append(ms_out, it.item) ELSE ms_out
    /\ ms_misused' = (ms_misused \/ ~MsIsValid(ms_it))
    /\ UNCHANGED <<ms_pc, ms_at, ms_map0>>
    /\ UNCHANGED mt_vars
    /\ UNCHANGED ms_others

-----------------------------------------------------------------------------
\* SsTableBuilder and SsTable

\* the keys added to a table, and the keys sought in it (some lie between the
\* added ones, one before them all)
SstKeys == {<<b>> : b \in 1..MaxSstKey} \cup {<<1, 1>>}
SstSeekKeys == SstKeys \cup {<<b, 1>> : b \in 1..MaxSstKey} \cup {<<0>>}
SstValues == BlockValues

\* put_u32 (of n as u32: the four low bytes)
PutU32(n) == <<(n \div 16777216) % 256, (n \div 65536) % 256, (n \div 256) % 256, n % 256>>

\* BlockMeta::encode_block_meta, the records
RECURSIVE MetaRecords(_)
MetaRecords(metas) ==
    IF metas = <<>> THEN <<>>
    ELSE PutU32(Head(metas).offset)
           \o PutU16(AsU16(Len(Head(metas).first_key))) \o Head(metas).first_key
           \o MetaRecords(Tail(metas))

\* what block_meta.hash(&mut hasher) writes: the length, then per BlockMeta the
\* offset and the first_key (a length and the bytes)
RECURSIVE MetaHashed(_)
MetaHashed(metas) ==
    IF metas = <<>> THEN <<>>
    ELSE <<Head(metas).offset, Len(Head(metas).first_key)>> \o Head(metas).first_key
           \o MetaHashed(Tail(metas))

MetaHash(metas) == HashStream(0, <<Len(metas)>> \o MetaHashed(metas))

\* BlockMeta::encode_block_meta: the bytes appended to buf
EncodeBlockMeta(metas) == MetaRecords(metas) \o PutU64(MetaHash(metas))

\* BlockMeta::estimate_size
RECURSIVE EstimateSize(_)
EstimateSize(metas) ==
    IF metas = <<>> THEN SIZEOF_U64
    ELSE SIZEOF_U32 + SIZEOF_U16 + Len(Head(metas).first_key) + EstimateSize(Tail(metas))

NoSst == [file |-> <<>>, block_metas |-> <<>>, block_meta_offset |-> 0]
EmptyBuilder == [data |-> <<>>, offsets |-> <<>>]

\* SsTableBuilder::finalize_block that records offset 0 for every block
FinalizeMetaOffsetZero(meta, data, first_key) ==
    Append(meta, [offset |-> 0, first_key |-> first_key])

\* SsTableBuilder::finalize_block on a non-empty current block: the meta and
\* data after it
FinalizeMeta(meta, data, first_key) ==
    Append(meta, [offset |-> Len(data), first_key |-> first_key])
FinalizeData(data, cur) == data \o Encode(cur)

\* BlockBuilder::add on the builder cur, accepted
BuilderPush(cur, key, value) ==
    [data |-> cur.data \o EntryBytes(key, value),
     offsets |-> Append(cur.offsets, AsU16(Len(cur.data)))]

\* SsTable::num_of_blocks
NumOfBlocks(t) == Len(t.block_metas)

\* SsTable::read_block (block_idx from 0); ok is FALSE when decode panics
ReadBlock(t, block_idx) ==
    LET block_offset == t.block_metas[block_idx + 1].offset
        block_end == IF block_idx + 1 < Len(t.block_metas)
                     THEN t.block_metas[block_idx + 2].offset
                     ELSE t.block_meta_offset
    IN Decode(SubSeq(t.file, block_offset + 1, block_end))

\* usize::saturating_sub
SaturatingSub(a, b) == IF a >= b THEN a - b ELSE 0

\* SsTable::find_block_idx that returns low where the search ends
RECURSIVE FindFromNoSub(_, _, _, _)
FindFromNoSub(metas, key, low, high) ==
    IF low < high
    THEN LET mid == (low + high) \div 2
             c == LexCmp(metas[mid + 1].first_key, key)
         IN IF c = "Less" THEN FindFromNoSub(metas, key, mid + 1, high)
            ELSE IF c = "Greater" THEN FindFromNoSub(metas, key, low, mid)
            ELSE mid
    ELSE low

\* SsTable::find_block_idx, its binary search over [low, high) and its result
RECURSIVE FindFrom(_, _, _, _)
FindFrom(metas, key, low, high) ==
    IF low < high
    THEN LET mid == (low + high) \div 2
             c == LexCmp(metas[mid + 1].first_key, key)
         IN IF c = "Less" THEN FindFrom(metas, key, mid + 1, high)
            ELSE IF c = "Greater" THEN FindFrom(metas, key, low, mid)
            ELSE mid
    ELSE SaturatingSub(low, 1)

\* SsTable::find_block_idx
FindBlockIdx(t, key) == FindFrom(t.block_metas, key, 0, Len(t.block_metas))

si_frame == <<sb_size, sb_meta, sb_data, sb_cur, sb_first_key, sb_pc, sb_in, sst>>
sb_frame == <<si, si_pc, si_op, si_scan, si_out>>

NoSi == [block_idx |-> 0, blk |-> NoDec, it |-> BiNew]

SstIterIdle ==
    /\ si = NoSi
    /\ si_pc = "none"
    /\ si_op = [op |-> "none", key |-> <<>>]
    /\ si_scan = FALSE
    /\ si_out = <<>>

\* SsTableBuilder::new(block_size)
SstNew ==
    /\ sb_size \in BlockSizes
    /\ sb_meta = <<>>
    /\ sb_data = <<>>
    /\ sb_cur = EmptyBuilder
    /\ sb_first_key = <<>>
    /\ sb_pc = "building"
    /\ sb_in = <<>>
    /\ sst = NoSst
    /\ SstIterIdle

SstIdle ==
    /\ sb_size = 0
    /\ sb_meta = <<>>
    /\ sb_data = <<>>
    /\ sb_cur = EmptyBuilder
    /\ sb_first_key = <<>>
    /\ sb_pc = "idle"
    /\ sb_in = <<>>
    /\ sst = NoSst
    /\ SstIterIdle

\* SsTableBuilder::add that records the key of every add as first_key
FirstKeyLatest(first_key, key) == key

\* SsTableBuilder::add, its first statement: first_key is set when it is empty
FirstKeySeen(first_key, key) ==
    IF first_key = <<>> THEN key ELSE first_key

\* SsTableBuilder::add on the builder.  When the current block turns the
\* entry away the block is finalized and the add is made again on a new
\* BlockBuilder, under assert!.  BlockBuilder::add panics on an empty key.
SstAddStep(key, value) ==
    /\ LET first_key == FirstKeySeen(sb_first_key, key)
       IN IF key = <<>>
          THEN /\ sb_first_key' = first_key
               /\ sb_pc' = "panicked"
               /\ UNCHANGED <<sb_meta, sb_data, sb_cur>>
          ELSE IF ~AddRejects(sb_cur.data, sb_cur.offsets, sb_size, key, value)
          THEN /\ sb_cur' = BuilderPush(sb_cur, key, value)
               /\ sb_first_key' = first_key
               /\ UNCHANGED <<sb_meta, sb_data, sb_pc>>
          ELSE /\ sb_meta' = FinalizeMeta(sb_meta, sb_data, first_key)
               /\ sb_data' = FinalizeData(sb_data, sb_cur)
               /\ IF AddRejects(EmptyBuilder.data, EmptyBuilder.offsets, sb_size,
                                key, value)
                  THEN /\ sb_cur' = EmptyBuilder
                       /\ sb_first_key' = <<>>
                       /\ sb_pc' = "panicked"
                  ELSE /\ sb_cur' = BuilderPush(EmptyBuilder, key, value)
                       /\ sb_first_key' = key
                       /\ UNCHANGED sb_pc
    /\ sb_in' = Append(sb_in, [key |-> key, value |-> value])
    /\ UNCHANGED <<sb_size, sst>>
    /\ UNCHANGED sb_frame

\* SsTableBuilder::add; the callers add keys in increasing order
SstAdd(key, value) ==
    /\ sb_pc = "building"
    /\ sb_in # <<>> => LexLess(sb_in[Len(sb_in)].key, key)
    /\ SstAddStep(key, value)
    /\ UNCHANGED sb_others

\* SsTableBuilder::build: finalize_block panics in BlockBuilder::build when no
\* entry is in flight, and encode_block_meta asserts that it wrote as many
\* bytes as it estimated
SstBuild ==
    /\ sb_pc = "building"
    /\ IF \/ sb_cur.offsets = <<>>
          \/ EstimateSize(FinalizeMeta(sb_meta, sb_data, sb_first_key))
                # Len(EncodeBlockMeta(FinalizeMeta(sb_meta, sb_data, sb_first_key)))
       THEN /\ sb_pc' = "panicked"
            /\ UNCHANGED <<sb_meta, sb_data, sb_cur, sb_first_key, sst>>
       ELSE LET meta == FinalizeMeta(sb_meta, sb_data, sb_first_key)
                data == FinalizeData(sb_data, sb_cur)
            IN /\ sb_pc' = "built"
               /\ sb_meta' = meta
               /\ sb_data' = data
               /\ sb_cur' = EmptyBuilder
               /\ sb_first_key' = <<>>
               /\ sst' = [file |-> data \o EncodeBlockMeta(meta) \o PutU32(Len(data)),
                          block_metas |-> meta,
                          block_meta_offset |-> Len(data)]
    /\ UNCHANGED <<sb_size, sb_in>>
    /\ UNCHANGED sb_frame
    /\ UNCHANGED sb_others

-----------------------------------------------------------------------------
\* SsTable::open on the image that build wrote

\* get_u32 at byte i (from 1) of b
GetU32(b, i) == (b[i] * 16777216) + (b[i + 1] * 65536) + (b[i + 2] * 256) + b[i + 3]

\* BlockMeta::decode_block_meta, its loop: the records read while more than
\* SIZEOF_U64 bytes remain, and the bytes left for the checksum
RECURSIVE MetaLoop(_, _)
MetaLoop(buf, metas) ==
    IF Len(buf) > SIZEOF_U64
    THEN LET offset == GetU32(buf, 1)
             first_key_len == GetU16(buf, SIZEOF_U32 + 1)
             first_key == SubSeq(buf, 7, 6 + first_key_len)
         IN MetaLoop(SubSeq(buf, 7 + first_key_len, Len(buf)),
                     Append(metas, [offset |-> offset, first_key |-> first_key]))
    ELSE [metas |-> metas, rest |-> buf]

\* BlockMeta::decode_block_meta that keeps the first record only
DecodeBlockMetaFirst(buf) ==
    LET l == MetaLoop(buf, <<>>)
    IN [ok |-> TRUE, metas |-> SubSeq(l.metas, 1, 1)]

\* BlockMeta::decode_block_meta; ok is FALSE when get_u64 or the checksum
\* assertion panics
DecodeBlockMeta(buf) ==
    LET l == MetaLoop(buf, <<>>)
    IN IF Len(l.rest) = SIZEOF_U64 /\ GetU64(l.rest, 1) = MetaHash(l.metas)
       THEN [ok |-> TRUE, metas |-> l.metas]
       ELSE [ok |-> FALSE, metas |-> <<>>]

NoOpen == [pc |-> "none", block_metas |-> <<>>, block_meta_offset |-> 0]

\* SsTable::open(file)
Open(file) ==
    LET meta_offset_start == Len(file) - SIZEOF_U32
        meta_start == GetU32(file, meta_offset_start + 1)
        block_meta_buf == SubSeq(file, meta_start + 1, meta_offset_start)
        d == DecodeBlockMeta(block_meta_buf)
    IN IF d.ok
       THEN [pc |-> "opened", block_metas |-> d.metas, block_meta_offset |-> meta_start]
       ELSE [pc |-> "panicked", block_metas |-> <<>>, block_meta_offset |-> 0]

SstOpenIdle == so = NoOpen

\* SsTable::open on the bytes of the table that build returned
SstOpen ==
    /\ sb_pc = "built"
    /\ so = NoOpen
    /\ so' = Open(sst.file)
    /\ UNCHANGED sb_vars
    /\ UNCHANGED so_others

-----------------------------------------------------------------------------
\* SsTableIterator over the SsTable t; an iterator is [block_idx, blk, it]

\* SsTableIterator::_maybe_next_block that never finds a next block
MaybeNextBlockNone(t, block_idx) ==
    [block_idx |-> block_idx, some |-> FALSE, blk |-> NoDec, it |-> BiNew]

\* SsTableIterator::_maybe_next_block: the next index, and the iterator on the
\* next block if there is one
MaybeNextBlock(t, block_idx) ==
    IF block_idx + 1 < NumOfBlocks(t)
    THEN LET b == ReadBlock(t, block_idx + 1)
         IN [block_idx |-> block_idx + 1, some |-> TRUE,
             blk |-> b, it |-> SeekToIdx(b, BiNew, 0)]
    ELSE [block_idx |-> block_idx, some |-> FALSE, blk |-> NoDec, it |-> BiNew]

\* SsTableIterator::_seek_to_key that stays in the block find_block_idx names
SstSeekStays(t, key) ==
    LET block_idx == FindBlockIdx(t, key)
        b == ReadBlock(t, block_idx)
    IN [block_idx |-> block_idx, blk |-> b, it |-> SeekToKey(b, BiNew, key)]

\* SsTableIterator::_seek_to_key
SstSeek(t, key) ==
    LET block_idx == FindBlockIdx(t, key)
        b == ReadBlock(t, block_idx)
        block_iter == SeekToKey(b, BiNew, key)
        n == MaybeNextBlock(t, block_idx)
    IN IF ~BiIsValid(block_iter) /\ n.some
       THEN [block_idx |-> n.block_idx, blk |-> n.blk, it |-> n.it]
       ELSE [block_idx |-> block_idx, blk |-> b, it |-> block_iter]

\* the first block, at its first entry
SstFirst(t) ==
    LET b == ReadBlock(t, 0)
    IN [block_idx |-> 0, blk |-> b, it |-> SeekToIdx(b, BiNew, 0)]

\* SsTableIterator::is_valid, key, value
SiIsValid(i) == BiIsValid(i.it)
SiEntry(i) == [key |-> i.it.key, value |-> i.it.value]

\* SsTableIterator::create_and_seek_to_first
SiCreateAndSeekToFirst ==
    /\ sb_pc = "built"
    /\ si_pc = "none"
    /\ \E r \in {SstFirst(sst)} :
          /\ si' = r
          /\ si_pc' = IF r.blk.ok THEN "live" ELSE "panicked"
          /\ si_out' = IF SiIsValid(r) THEN <<SiEntry(r)>> ELSE <<>>
    /\ si_op' = [op |-> "first", key |-> <<>>]
    /\ si_scan' = TRUE
    /\ UNCHANGED si_frame
    /\ UNCHANGED sb_others

\* SsTableIterator::seek_to_first
SiSeekToFirst ==
    /\ si_pc = "live"
    /\ \E r \in {SstFirst(sst)} :
          /\ si' = r
          /\ si_pc' = IF r.blk.ok THEN "live" ELSE "panicked"
          /\ si_out' = IF SiIsValid(r) THEN <<SiEntry(r)>> ELSE <<>>
    /\ si_op' = [op |-> "first", key |-> <<>>]
    /\ si_scan' = TRUE
    /\ UNCHANGED si_frame
    /\ UNCHANGED sb_others

\* SsTableIterator::create_and_seek_to_key
SiCreateAndSeekToKey(key) ==
    /\ sb_pc = "built"
    /\ si_pc = "none"
    /\ \E r \in {SstSeek(sst, key)} :
          /\ si' = r
          /\ si_pc' = IF r.blk.ok THEN "live" ELSE "panicked"
    /\ si_op' = [op |-> "seek", key |-> key]
    /\ si_scan' = FALSE
    /\ si_out' = <<>>
    /\ UNCHANGED si_frame
    /\ UNCHANGED sb_others

\* SsTableIterator::seek_to_key
SiSeekToKey(key) ==
    /\ si_pc = "live"
    /\ \E r \in {SstSeek(sst, key)} :
          /\ si' = r
          /\ si_pc' = IF r.blk.ok THEN "live" ELSE "panicked"
    /\ si_op' = [op |-> "seek", key |-> key]
    /\ si_scan' = FALSE
    /\ si_out' = <<>>
    /\ UNCHANGED si_frame
    /\ UNCHANGED sb_others

\* SsTableIterator::next.  On an invalid iterator a build with debug
\* assertions panics; one without goes on, and the block iterator's idx + 1
\* wraps from usize::MAX to 0.
SiNext(checked) ==
    /\ si_pc = "live"
    /\ IF ~SiIsValid(si) /\ checked
       THEN /\ si_pc' = "panicked"
            /\ UNCHANGED <<si, si_out>>
            /\ si_scan' = FALSE
       ELSE \E it1 \in {SeekToIdx(si.blk, si.it, si.it.idx + 1)} :
            \E n \in {MaybeNextBlock(sst, si.block_idx)} :
            \E r \in {IF BiIsValid(it1) THEN [si EXCEPT !.it = it1]
                      ELSE IF n.some THEN [block_idx |-> n.block_idx, blk |-> n.blk, it |-> n.it]
                      ELSE [block_idx |-> n.block_idx, blk |-> si.blk, it |-> it1]} :
               /\ si' = r
               /\ si_pc' = IF r.blk.ok THEN "live" ELSE "panicked"
               /\ si_scan' = (si_scan /\ SiIsValid(si))
               /\ si_out' = IF si_scan /\ SiIsValid(si)
                            THEN IF SiIsValid(r) THEN Append(si_out, SiEntry(r)) ELSE si_out
                            ELSE <<>>
    /\ si_op' = [op |-> "next", key |-> <<>>]
    /\ UNCHANGED si_frame
    /\ UNCHANGED sb_others

-----------------------------------------------------------------------------
\* MemTable::flush into an SsTableBuilder

\* one pass of a loop that advances the iterator before it forwards the entry
FlushTakeAfterNext(m, it) ==
    [add |-> RangeNext(m, it).item, it |-> RangeNext(m, it)]

\* MemTable::flush, one pass of its loop: the entry given to builder.add and
\* the iterator after iter.next()
FlushTake(m, it) ==
    [add |-> it.item, it |-> RangeNext(m, it)]

\* MemTable::flush, up to its loop: the unbounded scan.  The builder is new.
MemFlushBegin ==
    /\ mt_pc = "live"
    /\ ms_pc = "none"
    /\ sb_pc = "building"
    /\ sb_in = <<>>
    /\ \E it \in {RangeNext(mt_map, NoScan)} :
          /\ ms_it' = it
          /\ ms_out' = IF MsIsValid(it) THEN <<it.item>> ELSE <<>>
    /\ ms_pc' = "flushing"
    /\ ms_at' = Len(mt_puts)
    /\ ms_map0' = mt_map
    /\ ms_misused' = FALSE
    /\ UNCHANGED <<mt_vars, sb_vars>>
    /\ UNCHANGED <<mi_vars, tm_vars, bb_vars, bc_vars, so_vars>>

\* MemTable::flush, one test of is_valid: a pass of the loop, or the return
MemFlushStep ==
    /\ ms_pc = "flushing"
    /\ sb_pc = "building"
    /\ IF MsIsValid(ms_it)
       THEN \E t \in {FlushTake(mt_map, ms_it)} :
               /\ SstAddStep(t.add.key, t.add.value)
               /\ ms_it' = t.it
               /\ ms_out' = IF MsIsValid(t.it) THEN Append(ms_out, t.it.item) ELSE ms_out
               /\ UNCHANGED ms_pc
       ELSE /\ ms_pc' = "flushed"
            /\ UNCHANGED <<ms_it, ms_out, sb_vars>>
    /\ UNCHANGED <<ms_at, ms_map0, ms_misused>>
    /\ UNCHANGED mt_vars
    /\ UNCHANGED <<mi_vars, tm_vars, bb_vars, bc_vars, so_vars>>

\* SsTableBuilder::build once flush has returned the builder
FlushBuild ==
    /\ ms_pc = "flushed"
    /\ SstBuild

-----------------------------------------------------------------------------
\* Specifications, one per component

InitMerge == MergeInit /\ TwoIdle /\ BlockIdle /\ MemIdle /\ SstIdle /\ MemScanIdle /\ BlockCorruptIdle /\ SstOpenIdle
NextMerge ==
    \/ MergeCreate
    \/ \E fail \in 0..MaxIters : MergeNext(fail)
SpecMerge == InitMerge /\ [][NextMerge]_vars

InitBlock == BlockNew /\ MergeIdle /\ TwoIdle /\ MemIdle /\ SstIdle /\ MemScanIdle /\ BlockCorruptIdle /\ SstOpenIdle
NextBlock ==
    \/ \E key \in BlockKeys, value \in BlockValues : BlockAdd(key, value)
    \/ BlockBuild
    \/ BlockEncode
    \/ BlockDecode
    \/ BiCreateAndSeekToFirst
    \/ \E key \in BlockKeys : BiCreateAndSeekToKey(key)
    \/ BiSeekToFirst
    \/ \E checked \in BOOLEAN : BiNext(checked)
    \/ \E key \in BlockKeys : BiSeekToKey(key)
SpecBlock == InitBlock /\ [][NextBlock]_vars

\* a block built, encoded, and decoded from an image with an altered checksum
NextBlockCorrupt ==
    \/ \E key \in BlockKeys, value \in BlockValues : BlockAdd(key, value)
    \/ BlockBuild
    \/ BlockEncode
    \/ \E pos \in 1..SIZEOF_U64, d \in {1, 128} : BlockDecodeAltered(pos, d)
SpecBlockCorrupt == InitBlock /\ [][NextBlockCorrupt]_vars

InitTwoMerge == TwoInit /\ MergeIdle /\ BlockIdle /\ MemIdle /\ SstIdle /\ MemScanIdle /\ BlockCorruptIdle /\ SstOpenIdle

InitSst == SstNew /\ MergeIdle /\ TwoIdle /\ BlockIdle /\ MemIdle /\ MemScanIdle /\ BlockCorruptIdle /\ SstOpenIdle
NextSst ==
    \/ \E key \in SstKeys, value \in SstValues : SstAdd(key, value)
    \/ SstBuild
    \/ SiCreateAndSeekToFirst
    \/ SiSeekToFirst
    \/ \E key \in SstSeekKeys : SiCreateAndSeekToKey(key)
    \/ \E key \in SstSeekKeys : SiSeekToKey(key)
    \/ \E checked \in BOOLEAN : SiNext(checked)
SpecSst == InitSst /\ [][NextSst]_vars

\* a merge over inputs that never return an error, drained: the caller goes
\* on calling next() while the iterator is valid
NextMergeDrain ==
    \/ MergeCreate
    \/ MergeNext(0)
\* next() can be called: the iterator was created and is valid
NextCallable == mi_pc = "created" /\ MiIsValid(mi_cur, mi_pos)
\* weak fairness of next(), WF_vars(MergeNext(0)), with ENABLED <<MergeNext(0)>>_vars
\* written out as NextCallable (NextCallableIsEnabled states that they agree)
DrainFair == []<>(~NextCallable) \/ []<><<MergeNext(0)>>_vars
NextCallableIsEnabled == NextCallable <=> ENABLED <<MergeNext(0)>>_vars
SpecMergeDrain ==
    InitMerge /\ [][NextMergeDrain]_vars /\ WF_vars(MergeCreate) /\ DrainFair

\* a block built from entries of any length a slice can have, at any target
\* size a usize can hold
InitBlockWide == BlockNewWide /\ MergeIdle /\ TwoIdle /\ MemIdle /\ SstIdle /\ MemScanIdle /\ BlockCorruptIdle /\ SstOpenIdle
NextBlockWide ==
    \/ \E key \in BlockKeys, value \in WideBlockValues : BlockAdd(key, value)
    \/ BlockBuild
SpecBlockWide == InitBlockWide /\ [][NextBlockWide]_vars

\* a memtable flushed into a new builder, the table built and scanned; puts
\* go on during and after the flush
InitFlush == MemCreate /\ SstNew /\ MergeIdle /\ TwoIdle /\ BlockIdle /\ MemScanIdle /\ BlockCorruptIdle /\ SstOpenIdle
NextFlush ==
    \/ \E key \in MemKeys : MemPut(key, <<Len(mt_puts) + 1>>)
    \/ MemFlushBegin
    \/ MemFlushStep
    \/ FlushBuild
    \/ SiCreateAndSeekToFirst
    \/ \E checked \in BOOLEAN : SiNext(checked)
SpecFlush == InitFlush /\ [][NextFlush]_vars

\* a table built and opened again from its bytes
NextSstOpen ==
    \/ \E key \in SstKeys, value \in SstValues : SstAdd(key, value)
    \/ SstBuild
    \/ SstOpen
SpecSstOpen == InitSst /\ [][NextSstOpen]_vars

InitMem == MemCreate /\ MergeIdle /\ TwoIdle /\ BlockIdle /\ SstIdle /\ MemScanIdle /\ BlockCorruptIdle /\ SstOpenIdle
NextMem ==
    \/ \E key \in MemKeys, value \in MemValues : MemPut(key, value)
    \/ \E key \in MemKeys : MemGet(key)
SpecMem == InitMem /\ [][NextMem]_vars

\* a memtable written by puts while one scan reads it; each put writes a value
\* of its own (its number), so that an entry tells which put wrote it
InitMemScan == MemCreate /\ MemScanIdle /\ MergeIdle /\ TwoIdle /\ BlockIdle /\ SstIdle /\ BlockCorruptIdle /\ SstOpenIdle
NextMemScan ==
    \/ \E key \in MemKeys : MemPut(key, <<Len(mt_puts) + 1>>)
    \/ \E lower \in MemBounds, upper \in MemBounds : MemScan(lower, upper)
    \/ \E restarts \in BOOLEAN : MemIterNext(restarts)
SpecMemScan == InitMemScan /\ [][NextMemScan]_vars
NextTwoMerge == \E fail \in {"none", "a", "b"} : TwoNext(fail)
SpecTwoMerge == InitTwoMerge /\ [][NextTwoMerge]_vars

-----------------------------------------------------------------------------
\* Claims about MergeIterator

\* The keys of a sequence of entries
KeysOf(ents) == {ents[i].key : i \in DOMAIN ents}

\* The entries of ents stand in strictly increasing key order
StrictlySorted(ents) ==
    \A i \in 1..(Len(ents) - 1) : LexLess(ents[i].key, ents[i + 1].key)

\* The value input number i holds for key k (i holds k)
ValueAt(ents, k) == (CHOOSE j \in DOMAIN ents : ents[j].key = k)
InputValue(i, k) == mi_in[i][ValueAt(mi_in[i], k)].value

\* The first input that holds key k
FirstHolder(k) ==
    CHOOSE i \in DOMAIN mi_in :
        /\ k \in KeysOf(mi_in[i])
        /\ \A j \in 1..(i - 1) : k \notin KeysOf(mi_in[j])

\* C1: while no input has returned an error, the entries a MergeIterator has
\* delivered have strictly increasing keys (sorted, no key twice), and the
\* value delivered for a key is the value of that key in the input with the
\* smallest index that holds the key.
C1_MergeSortedFirstWins ==
    mi_failed = {} =>
        /\ StrictlySorted(mi_out)
        /\ \A n \in DOMAIN mi_out :
              /\ \E i \in DOMAIN mi_in : mi_out[n].key \in KeysOf(mi_in[i])
              /\ mi_out[n].value = InputValue(FirstHolder(mi_out[n].key), mi_out[n].key)

\* A merge of three inputs that all hold one key, and of which a later input
\* holds a key the first lacks, drained without an error.
C1_Witness ==
    /\ mi_pc = "created"
    /\ ~MiIsValid(mi_cur, mi_pos)
    /\ mi_failed = {}
    /\ Len(mi_in) = 3
    /\ \E k \in MergeKeys : \A i \in 1..3 : k \in KeysOf(mi_in[i])
    /\ \E k \in KeysOf(mi_in[3]) : k \notin KeysOf(mi_in[1])
    /\ Len(mi_out) = 2

-----------------------------------------------------------------------------
\* Claims about TwoMergeIterator

TwoAValue(k) == tm_a[ValueAt(tm_a, k)].value

\* C2: in every valid state key() and value() are A's current entry if A is
\* valid and (B is invalid or A.key <= B.key), and B's current entry otherwise;
\* and every entry delivered for a key that A and B both hold carries A's value.
C2_TwoMergePrefersA ==
    /\ TwoIsValid(tm_pa, tm_pb) =>
          LET fromA == ItValid(tm_a, tm_pa)
                         /\ (~ItValid(tm_b, tm_pb)
                               \/ ~LexLess(ItKey(tm_b, tm_pb), ItKey(tm_a, tm_pa)))
              e == IF fromA THEN tm_a[tm_pa] ELSE tm_b[tm_pb]
          IN /\ TwoKey(tm_pa, tm_pb) = e.key
             /\ TwoValue(tm_pa, tm_pb) = e.value
    /\ \A n \in DOMAIN tm_out :
          (tm_out[n].key \in KeysOf(tm_a) \cap KeysOf(tm_b))
              => tm_out[n].value = TwoAValue(tm_out[n].key)

\* A and B both stand on the same key, after a next() that advanced
C2_Witness ==
    /\ tm_pc = "created"
    /\ ItValid(tm_a, tm_pa) /\ ItValid(tm_b, tm_pb)
    /\ ItKey(tm_a, tm_pa) = ItKey(tm_b, tm_pb)
    /\ tm_pa > 1 /\ tm_pb > 1
    /\ Len(tm_out) >= 2

\* The step of one next(): which inputs it advanced
TwoNextAdvancesAsStated ==
    tm_ret' = "ok" =>
        LET av == ItValid(tm_a, tm_pa)
            bv == ItValid(tm_b, tm_pb)
            da == tm_pa' - tm_pa
            db == tm_pb' - tm_pb
        IN IF av /\ ~bv THEN da = 1 /\ db = 0
           ELSE IF bv /\ ~av THEN da = 0 /\ db = 1
           ELSE IF ItKey(tm_a, tm_pa) = ItKey(tm_b, tm_pb) THEN da = 1 /\ db = 1
           ELSE IF LexLess(ItKey(tm_a, tm_pa), ItKey(tm_b, tm_pb)) THEN da = 1 /\ db = 0
           ELSE da = 0 /\ db = 1

\* What a drain has delivered so far, while no input has returned an error:
\* strictly increasing keys, and once the iterator is invalid every key of A
\* and every key of B exactly once.
TwoDrainDelivers ==
    tm_failed = {} =>
        /\ StrictlySorted(tm_out)
        /\ KeysOf(tm_out) \subseteq KeysOf(tm_a) \cup KeysOf(tm_b)
        /\ (tm_pc = "created" /\ ~TwoIsValid(tm_pa, tm_pb)) =>
              /\ KeysOf(tm_out) = KeysOf(tm_a) \cup KeysOf(tm_b)
              /\ Len(tm_out) = Cardinality(KeysOf(tm_a) \cup KeysOf(tm_b))

\* C3: draining TwoMergeIterator(A, B) over inputs that never return an error
\* delivers every key of A and of B exactly once in strictly increasing order,
\* and each next() advances only the valid side when one side is invalid, both
\* sides on equal keys, and otherwise only the side with the smaller key.
C3_TwoMergeDrain == [](TwoDrainDelivers) /\ [][TwoNextAdvancesAsStated]_vars

\* A drained two-way merge whose inputs share a key and each hold a key the
\* other lacks
C3_Witness ==
    /\ tm_pc = "created"
    /\ ~TwoIsValid(tm_pa, tm_pb)
    /\ tm_failed = {}
    /\ KeysOf(tm_a) \cap KeysOf(tm_b) # {}
    /\ KeysOf(tm_a) \ KeysOf(tm_b) # {}
    /\ KeysOf(tm_b) \ KeysOf(tm_a) # {}
    /\ Len(tm_out) = 3

-----------------------------------------------------------------------------
\* Claims about Block, BlockBuilder and BlockIterator

\* What seek_to_first followed by next() while is_valid() reads from block b
RECURSIVE IterFrom(_, _)
IterFrom(b, it) ==
    IF ~BiIsValid(it) THEN <<>>
    ELSE <<[key |-> it.key, value |-> it.value]>> \o IterFrom(b, SeekToIdx(b, it, it.idx + 1))

IterAll(b) == IterFrom(b, SeekToIdx(b, BiNew, 0))

\* C5: decoding the encoding of a built block succeeds and returns the block's
\* data and offsets, and iterating the decoded block from its first entry reads
\* the entries of the built block (those that were added), in order, and then
\* becomes invalid.
C5_DecodeEncodeRoundTrip ==
    /\ blk_img # <<>> =>
          Decode(blk_img) = [ok |-> TRUE, data |-> blk.data, offsets |-> blk.offsets]
    /\ blk_dec.ok =>
          /\ blk_dec.data = blk.data
          /\ blk_dec.offsets = blk.offsets
          /\ IterAll(blk_dec) = IterAll(blk)
          /\ IterAll(blk_dec) = bb_ents

\* A decoded block of three entries, iterated past its last entry
C5_Witness ==
    /\ blk_dec.ok
    /\ Len(bb_ents) = 3
    /\ bi_pc = "live"
    /\ bi_op.op = "next"
    /\ bi_prev.idx = 2
    /\ ~BiIsValid(bi)

\* C6: a built block's encoding is at most the target size long, unless the
\* block holds exactly one entry.
C6_EncodedWithinTarget ==
    (bb_pc = "built" /\ blk_img # <<>>) =>
        (Len(blk_img) <= bb_size \/ Len(blk.offsets) = 1)

\* The index (from 0) of the first added entry whose key is >= k, or -1
FirstAtLeast(ents, k) ==
    LET S == {i \in 1..Len(ents) : ~LexLess(ents[i].key, k)}
    IN IF S = {} THEN -1 ELSE (CHOOSE i \in S : \A j \in S : i <= j) - 1

\* C9: after seek_to_key(k), from any prior position, the iterator stands on
\* the first entry whose key is >= k, with key, value and idx of that entry,
\* and is invalid exactly when every key of the block is < k.
C9_BlockSeekToKey ==
    (bi_pc = "live" /\ bi_op.op = "seek") =>
        LET i == FirstAtLeast(bb_ents, bi_op.key)
        IN IF i = -1
           THEN ~BiIsValid(bi)
           ELSE /\ BiIsValid(bi)
                /\ bi.idx = i
                /\ bi.key = bb_ents[i + 1].key
                /\ bi.value = bb_ents[i + 1].value

\* seek_to_key(k) on a three-entry block from a position past the first entry
\* that already stands on k (the early exit)
C9_Witness ==
    /\ bi_pc = "live"
    /\ bi_op.op = "seek"
    /\ Len(bb_ents) = 3
    /\ BiIsValid(bi_prev)
    /\ bi_prev.key = bi_op.key
    /\ bi_prev.idx >= 1

\* seek_to_key(k) for a key the block lacks, from a valid position, landing on
\* a later entry
C9_SearchCase ==
    /\ bi_pc = "live"
    /\ bi_op.op = "seek"
    /\ Len(bb_ents) = 3
    /\ BiIsValid(bi_prev)
    /\ BiIsValid(bi)
    /\ bi.key # bi_op.key
    /\ bi.idx = 2

-----------------------------------------------------------------------------
\* Claims about MemTable

\* What get(k) is to return after the puts of the log puts: the value of the
\* last put of k, or absent
LastPut(puts, k) ==
    LET of == SelectSeq(puts, LAMBDA p : p.key = k)
    IN IF of = <<>>
       THEN [key |-> k, found |-> FALSE, value |-> <<>>]
       ELSE [key |-> k, found |-> TRUE, value |-> of[Len(of)].value]

\* C10: after any sequence of puts, get(k) returns the value of the most
\* recent put of k and absent for a key never put, and the map holds each key
\* once, in key order.
C10_MemGetLastPut ==
    /\ \A k \in MemKeys : MapGet(mt_map, k) = LastPut(mt_puts, k)
    /\ StrictlySorted(mt_map)
    /\ mt_got # NoGet => mt_got = LastPut(SubSeq(mt_puts, 1, mt_got_at), mt_got.key)

\* A key put twice with different values, another key put in between, and the
\* first key read back
C10_Witness ==
    /\ Len(mt_puts) = 3
    /\ mt_puts[1].key = mt_puts[3].key
    /\ mt_puts[1].value # mt_puts[3].value
    /\ mt_puts[2].key # mt_puts[1].key
    /\ mt_got_at = 3
    /\ mt_got.found
    /\ mt_got.key = mt_puts[3].key

-----------------------------------------------------------------------------
\* Claims about SsTable, SsTableBuilder and SsTableIterator

\* The first keys of the blocks of the table t, in block order
FirstKeys(t) == [i \in 1..Len(t.block_metas) |-> [key |-> t.block_metas[i].first_key]]

\* The blocks of t whose first key is <= k, as indices from 0
BlocksAtMost(t, k) == {i \in 0..(NumOfBlocks(t) - 1) : LexLeq(t.block_metas[i + 1].first_key, k)}

\* The block find_block_idx(k) is to name: the last one whose first key is
\* <= k (the one whose first key is k, if there is one), or block 0
BlockFor(t, k) ==
    LET S == BlocksAtMost(t, k)
    IN IF S = {} THEN 0 ELSE CHOOSE i \in S : \A j \in S : j <= i

\* C4: a scan of a built table from create_and_seek_to_first (or
\* seek_to_first) by next() reads the added entries in order, one per step,
\* whatever the block size: what was read so far is a prefix of the input, the
\* iterator stands on the last entry read, no read fails, and the iterator is
\* invalid only when the whole input was read and the last block was reached.
C4_SstFullScan ==
    si_scan =>
        /\ si_pc = "live"
        /\ Len(si_out) <= Len(sb_in)
        /\ si_out = SubSeq(sb_in, 1, Len(si_out))
        /\ IF SiIsValid(si)
           THEN /\ si_out # <<>>
                /\ SiEntry(si) = sb_in[Len(si_out)]
           ELSE /\ si_out = sb_in
                /\ si.block_idx = NumOfBlocks(sst) - 1

\* A table of three entries in two or more blocks, scanned to its end
C4_Witness ==
    /\ si_scan
    /\ si_pc = "live"
    /\ ~SiIsValid(si)
    /\ Len(si_out) = 3
    /\ NumOfBlocks(sst) >= 2
    /\ si_op.op = "next"

\* C7: in a built table (one block or more, first keys strictly increasing),
\* find_block_idx(k) is for every key k the block whose first key is k, else
\* the block with the largest first key < k, else block 0; and a key the table
\* stores is stored in that block.  The table never changes once built, so
\* it is looked at before an iterator is made over it and after each seek.
C7_FindBlockIdx ==
    (sb_pc = "built" /\ (si_pc = "none" \/ si_op.op = "seek")) =>
        /\ NumOfBlocks(sst) >= 1
        /\ StrictlySorted(FirstKeys(sst))
        /\ \A k \in SstSeekKeys :
              /\ FindBlockIdx(sst, k) = BlockFor(sst, k)
              /\ k \in KeysOf(sb_in) =>
                    k \in KeysOf(IterAll(ReadBlock(sst, FindBlockIdx(sst, k))))

\* A table of three blocks, sought for a key that is no block's first key and
\* lies after the first key of the second block
C7_Witness ==
    /\ sb_pc = "built"
    /\ NumOfBlocks(sst) = 3
    /\ si_op.op = "seek"
    /\ si_op.key \notin KeysOf(FirstKeys(sst))
    /\ FindBlockIdx(sst, si_op.key) >= 1

\* C8: after seek_to_key(k) or create_and_seek_to_key(k), from any prior
\* state, the iterator stands on the entry of the table with the smallest key
\* >= k, in the block that holds it, and is invalid exactly when the table
\* has no key >= k.
C8_SstSeekToKey ==
    si_op.op = "seek" =>
        /\ si_pc = "live"
        /\ LET i == FirstAtLeast(sb_in, si_op.key)
           IN IF i = -1
              THEN ~SiIsValid(si)
              ELSE /\ SiIsValid(si)
                   /\ SiEntry(si) = sb_in[i + 1]
                   /\ si.it.key \in KeysOf(IterAll(ReadBlock(sst, si.block_idx)))

\* seek_to_key(k) for a key that lies between two blocks: find_block_idx
\* names the earlier block, and the iterator stands on the first entry of the
\* next one
C8_Witness ==
    /\ si_op.op = "seek"
    /\ SiIsValid(si)
    /\ si.block_idx = FindBlockIdx(sst, si_op.key) + 1
    /\ si.it.idx = 0
    /\ LexLess(si_op.key, si.it.key)

-----------------------------------------------------------------------------
\* Claims about MemTable::scan and MemTableIterator

\* The entries of m within the bounds, in key order
KeyWithin(lower, upper, k) ==
    /\ lower.kind = "Included" => LexLeq(lower.key, k)
    /\ lower.kind = "Excluded" => LexLess(lower.key, k)
    /\ upper.kind = "Included" => LexLeq(k, upper.key)
    /\ upper.kind = "Excluded" => LexLess(k, upper.key)
InRange(m, lower, upper) == SelectSeq(m, LAMBDA e : KeyWithin(lower, upper, e.key))

\* C11: with no put since scan(lower, upper), the iterator stands after scan
\* on the first entry within the bounds, each next() moves it to the next
\* one in key order, and it is invalid exactly when every entry within the
\* bounds was delivered (at once when there is none).
C11_MemScanInRange ==
    (ms_pc = "scanning" /\ ~ms_misused /\ Len(mt_puts) = ms_at) =>
        LET want == InRange(mt_map, ms_it.lower, ms_it.upper)
        IN /\ Len(ms_out) <= Len(want)
           /\ ms_out = SubSeq(want, 1, Len(ms_out))
           /\ StrictlySorted(ms_out)
           /\ IF MsIsValid(ms_it)
              THEN /\ ms_out # <<>>
                   /\ ms_it.item = want[Len(ms_out)]
              ELSE ms_out = want

\* A scan with an excluded lower and an included upper bound over a map that
\* holds both bound keys, read to its end: the upper key alone was delivered
C11_Witness ==
    /\ ms_pc = "scanning"
    /\ ~ms_misused
    /\ Len(mt_puts) = ms_at
    /\ ms_it.lower.kind = "Excluded"
    /\ ms_it.upper.kind = "Included"
    /\ ms_it.lower.key \in KeysOf(mt_map)
    /\ ms_it.upper.key \in KeysOf(mt_map)
    /\ Len(ms_out) = 1
    /\ ms_out[1].key = ms_it.upper.key
    /\ ~MsIsValid(ms_it)

\* The entries that were in the map at some point since scan was called
SeenDuringScan ==
    Range(ms_map0) \cup {mt_puts[i] : i \in (ms_at + 1)..Len(mt_puts)}

\* C12: with puts going on between the calls of a scan, every entry the scan
\* has delivered was in the map at some point since scan was called, and the
\* delivered keys do not decrease.
C12_MemScanUnderPuts ==
    (ms_pc = "scanning" /\ ~ms_misused) =>
        /\ \A i \in DOMAIN ms_out : ms_out[i] \in SeenDuringScan
        /\ \A i \in 1..(Len(ms_out) - 1) : LexLeq(ms_out[i].key, ms_out[i + 1].key)
        /\ MsIsValid(ms_it) => ms_it.item = ms_out[Len(ms_out)]

\* A scan that delivered an entry put after scan was called, after an entry
\* that was there before
C12_Witness ==
    /\ ms_pc = "scanning"
    /\ ~ms_misused
    /\ Len(ms_out) >= 2
    /\ ms_out[1] \in Range(ms_map0)
    /\ ms_out[Len(ms_out)] \notin Range(ms_map0)
    /\ MsIsValid(ms_it)

-----------------------------------------------------------------------------
\* Claims about Block::decode on altered images

\* C13: Block::decode of an encoded block with a byte of its trailing
\* checksum altered (the last byte in particular) ends with a CorruptBlock
\* error value and no Block.
C13_DecodeAlteredIsError ==
    bc_out # "none" => bc_out = "error"

\* What the code does instead: the checksum differs from the recomputed one,
\* and decode panics in its assert_eq!; it never returns a Block
DecodeAlteredPanics ==
    bc_out # "none" =>
        /\ GetU64(bc_img, Len(bc_img) - SIZEOF_U64 + 1) # HashDefault(blk.data, blk.offsets)
        /\ bc_out = "panicked"

-----------------------------------------------------------------------------
\* Claims about iterators that have become invalid

\* A next() of the BlockIterator, and of the SsTableIterator, that does not
\* end in a panic
BlockNextStep == bi_pc = "live" /\ bi_op'.op = "next" /\ bi_pc' = "live"
SstNextStep == si_pc = "live" /\ si_op'.op = "next" /\ si_pc' = "live"

\* C14: an iterator that next() left invalid stays invalid under every
\* further next(): it does not become valid and stands on no entry again
\* (BlockIterator and SsTableIterator, whose next() the claim names).
C14_InvalidStaysInvalid ==
    [][/\ (BlockNextStep /\ bi_op.op = "next" /\ ~BiIsValid(bi)) => ~BiIsValid(bi')
       /\ (SstNextStep /\ si_op.op = "next" /\ ~SiIsValid(si)) => ~SiIsValid(si')]_vars

\* The same for the SsTableIterator alone
SstInvalidStaysInvalid ==
    [][(SstNextStep /\ si_op.op = "next" /\ ~SiIsValid(si)) => ~SiIsValid(si')]_vars

-----------------------------------------------------------------------------
\* Claims about MergeIterator state

\* C15: when MergeIterator::next returns the error of an input's next(), that
\* input is out of the merge set: it is not in the heap and it is not the
\* current iterator (so a later next() cannot fail on it again).
C15_FailedInputRemoved ==
    mi_ret = "err" =>
        /\ mi_last_fail \notin mi_heap
        /\ mi_cur.src # mi_last_fail

\* What the code keeps of it: the input that failed is not in the heap
FailedInputOutOfHeap == mi_ret = "err" => mi_last_fail \notin mi_heap

-----------------------------------------------------------------------------
\* Claims about the BlockMeta vector and the SST image

\* C16: after adds with strictly increasing keys and build, the BlockMeta
\* vector has strictly increasing offsets starting at 0, each first_key is
\* the key of the first entry stored in its block, and the first_keys are
\* strictly increasing.  (The table never changes once built, so it is
\* looked at before an iterator is made over it.)
C16_BlockMetaInvariants ==
    (sb_pc = "built" /\ si_pc = "none") =>
        LET metas == sst.block_metas
        IN /\ metas # <<>>
           /\ metas[1].offset = 0
           /\ \A i \in 1..(Len(metas) - 1) : metas[i].offset < metas[i + 1].offset
           /\ \A i \in 1..Len(metas) :
                 LET ents == IterAll(ReadBlock(sst, i - 1))
                 IN /\ ents # <<>>
                    /\ ents[1].key = metas[i].first_key
           /\ \A i \in 1..(Len(metas) - 1) :
                 LexLess(metas[i].first_key, metas[i + 1].first_key)

\* A built table of three entries in two blocks: one block holds two entries
C16_Witness ==
    /\ sb_pc = "built"
    /\ si_pc = "none"
    /\ Len(sb_in) = 3
    /\ NumOfBlocks(sst) = 2

\* C17: SsTable::open on the bytes build wrote succeeds and gives the
\* block_metas and the meta offset of the table build returned; the trailing
\* u32 of the image is the length of the data blocks, and the image is as
\* long as the data blocks, the meta records, the u64 checksum and that u32.
C17_OpenReadsWhatBuildWrote ==
    /\ sb_pc = "built" =>
          /\ GetU32(sst.file, Len(sst.file) - SIZEOF_U32 + 1) = Len(sb_data)
          /\ sst.block_meta_offset = Len(sb_data)
          /\ Len(sst.file) = sst.block_meta_offset + Len(MetaRecords(sst.block_metas))
                               + SIZEOF_U64 + SIZEOF_U32
    /\ so # NoOpen =>
          /\ so.pc = "opened"
          /\ so.block_metas = sst.block_metas
          /\ so.block_meta_offset = sst.block_meta_offset

\* A table of three blocks, built and opened
C17_Witness ==
    /\ so.pc = "opened"
    /\ Len(so.block_metas) = 3
    /\ Len(sb_in) = 3

-----------------------------------------------------------------------------
\* Claims about BlockBuilder::add

\* The bytes of one entry: u16 key length, key, u16 value length, value
EntryImage(key, value) ==
    <<Len(key) \div 256, Len(key) % 256>> \o key
        \o <<Len(value) \div 256, Len(value) % 256>> \o value

\* The condition under which add(key, value) is to return false
BlockIsFull(key, value) ==
    /\ bb_offsets # <<>>
    /\ Len(bb_data) + (2 * Len(bb_offsets)) + 2 + Len(key) + Len(value) + 6 > bb_size

\* C18: add(key, value) with a non-empty key returns false and leaves data
\* and offsets as they were exactly when the block is non-empty and
\* data_len + 2 * offsets_len + 2 + key_len + value_len + 6 > target_size;
\* otherwise (any first add included) it appends the offset of the entry and
\* the encoded entry and returns true.
C18_AddFrame ==
    [][\A key \in BlockKeys, value \in BlockValues :
         BlockAdd(key, value) =>
            IF BlockIsFull(key, value)
            THEN /\ bb_ret' = "false"
                 /\ bb_data' = bb_data
                 /\ bb_offsets' = bb_offsets
            ELSE /\ bb_ret' = "true"
                 /\ bb_offsets' = Append(bb_offsets, Len(bb_data))
                 /\ bb_data' = bb_data \o EntryImage(key, value)]_vars

\* A first entry that alone exceeds the target size was taken, and the add
\* after it was turned away
C18_Witness ==
    /\ bb_pc = "building"
    /\ bb_ret = "false"
    /\ Len(bb_ents) = 1
    /\ Len(bb_data) + 4 > bb_size

-----------------------------------------------------------------------------
\* Claims about the heap of MergeIterator

\* (key ka, index wa) <= (key kb, index wb)
PairLeq(ka, wa, kb, wb) == LexLess(ka, kb) \/ (ka = kb /\ wa <= wb)

\* C19: after create and after every next() that returned Ok, every iterator
\* in the heap is valid, and if the merge iterator is valid, (key, index) of
\* current is <= (key, index) of every iterator in the heap; so the key of
\* the heap's top is never below current's key.
C19_CurrentIsSmallest ==
    (mi_pc = "created" /\ mi_ret = "ok") =>
        /\ \A i \in mi_heap : ItValid(mi_in[i], mi_pos[i])
        /\ MiIsValid(mi_cur, mi_pos) =>
              \A i \in mi_heap :
                  PairLeq(MiKey, mi_cur.w, ItKey(mi_in[i], mi_pos[i]), i - 1)

\* After a next() that returned Ok the heap holds an iterator that was current
\* and has moved on to the key current stands on, and current has not moved:
\* current was swapped with the heap's top, the index settling the tie
C19_Witness ==
    /\ mi_pc = "created"
    /\ mi_ret = "ok"
    /\ MiIsValid(mi_cur, mi_pos)
    /\ mi_pos[mi_cur.src] = 1
    /\ \E i \in mi_heap :
          /\ mi_pos[i] > 1
          /\ ItKey(mi_in[i], mi_pos[i]) = MiKey
          /\ mi_cur.w < i - 1

\* The inputs that are valid when create is called
ValidInputs == {i \in DOMAIN mi_in : ItValid(mi_in[i], mi_pos[i])}

\* C20: create leaves every initially invalid input out of the heap and makes
\* the valid input of smallest (key, index) current, the other valid inputs
\* being the heap; the created iterator is valid iff some input is valid, and
\* invalid when all inputs are invalid or there is none, whatever the order
\* of valid and invalid inputs.
C20_CreateSkipsInvalid ==
    [][(mi_pc = "new" /\ mi_pc' = "created") =>
         /\ mi_heap' \subseteq ValidInputs
         /\ MiIsValid(mi_cur', mi_pos') <=> ValidInputs # {}
         /\ ValidInputs # {} =>
               /\ mi_cur'.src \in ValidInputs
               /\ mi_cur'.w = mi_cur'.src - 1
               /\ mi_heap' = ValidInputs \ {mi_cur'.src}
               /\ \A j \in ValidInputs :
                     PairLeq(ItKey(mi_in[mi_cur'.src], 1), mi_cur'.src - 1,
                             ItKey(mi_in[j], 1), j - 1)
         /\ ValidInputs = {} => mi_heap' = {}]_vars

\* A merge created over an invalid input, a valid one and an invalid one, in
\* that order, and valid
C20_Witness ==
    /\ mi_pc = "created"
    /\ Len(mi_in) = 3
    /\ mi_in[1] = <<>>
    /\ mi_in[2] # <<>>
    /\ mi_in[3] = <<>>
    /\ mi_pos = <<1, 1, 1>>
    /\ mi_ret = "ok"
    /\ MiIsValid(mi_cur, mi_pos)
    /\ mi_cur.src = 2
    /\ mi_heap = {}

\* Created over no input, or over invalid inputs only: not valid
CreatedInvalid ==
    /\ mi_pc = "created"
    /\ \A i \in DOMAIN mi_in : mi_in[i] = <<>>
    /\ ~MiIsValid(mi_cur, mi_pos)

-----------------------------------------------------------------------------
\* Claims about an error in the duplicate-skipping loop

\* The heap inputs that stand on current's key before input f in heap order:
\* the loop advances them before it reaches f
SkippedBefore(f) ==
    {i \in mi_heap : ItKey(mi_in[i], mi_pos[i]) = MiKey /\ i < f}

\* A call of next() that returned the error of a heap input
SkipLoopFailed ==
    /\ mi_pc = "created"
    /\ mi_ret' = "err"
    /\ mi_last_fail' \in mi_heap

\* C21: when next() returns the error of a heap iterator that stood on
\* current's key, the merge iterator is valid on the same current with the same
\* key and value (current was not advanced), the heap iterators the loop
\* advanced before the failure stay advanced by one step (those it exhausted
\* are out of the heap), every other input stands where it stood, and nothing
\* new is delivered.
C21_SkipErrorLeavesValid ==
    [][SkipLoopFailed =>
        /\ mi_cur' = mi_cur
        /\ MiIsValid(mi_cur', mi_pos')
        /\ mi_pos'[mi_cur.src] = mi_pos[mi_cur.src]
        /\ \A i \in DOMAIN mi_pos :
              mi_pos'[i] = IF i \in SkippedBefore(mi_last_fail')
                           THEN mi_pos[i] + 1 ELSE mi_pos[i]
        /\ mi_heap' = {i \in mi_heap \ {mi_last_fail'} : ItValid(mi_in[i], mi_pos'[i])}
        /\ mi_out' = mi_out]_vars

\* Three inputs on one key: the first is current, the second was advanced by
\* the loop, the third returned the error.
C21_Witness ==
    /\ mi_pc = "created"
    /\ mi_ret = "err"
    /\ Len(mi_in) = 3
    /\ mi_cur.src = 1
    /\ mi_last_fail = 3
    /\ mi_pos[1] = 1
    /\ mi_pos[2] = 2
    /\ mi_pos[3] = 1
    /\ ItKey(mi_in[2], 1) = MiKey
    /\ ItKey(mi_in[3], 1) = MiKey

-----------------------------------------------------------------------------
\* Claims about SsTableBuilder::add

\* The key of the first entry written in the data of a block builder
FirstKeyIn(cur) == SubSeq(cur.data, 3, 2 + GetU16(cur.data, 1))

\* The first attempt of add(key, value) on the current block returns false
FirstAttemptFails(key, value) ==
    /\ sb_cur.offsets # <<>>
    /\ Len(sb_cur.data) + (2 * Len(sb_cur.offsets)) + 2
          + Len(key) + Len(value) + 6 > sb_size

\* C22: in every add of SsTableBuilder, when the first attempt on the current
\* block returns false the block is finalized (one more BlockMeta, its bytes
\* appended to data) and the second attempt on the new block succeeds: add
\* does not panic and the new block holds exactly the entry added.  After
\* every add the in-flight block is non-empty and first_key is the key of its
\* first entry.
C22_AddRetrySucceeds ==
    [][\A key \in SstKeys, value \in SstValues :
         SstAdd(key, value) =>
            /\ sb_pc' = "building"
            /\ sb_cur'.offsets # <<>>
            /\ sb_first_key' = FirstKeyIn(sb_cur')
            /\ IF FirstAttemptFails(key, value)
               THEN /\ Len(sb_meta') = Len(sb_meta) + 1
                    /\ sb_data' = sb_data \o Encode(sb_cur)
                    /\ sb_cur' = [data |-> EntryImage(key, value), offsets |-> <<0>>]
               ELSE /\ sb_meta' = sb_meta
                    /\ sb_data' = sb_data
                    /\ sb_cur'.data = sb_cur.data \o EntryImage(key, value)]_vars

\* An entry larger than the target size went into a new block after the
\* current block turned it away: the second attempt succeeds on the empty
\* block only
C22_Witness ==
    /\ sb_pc = "building"
    /\ sb_meta # <<>>
    /\ Len(sb_cur.offsets) = 1
    /\ Len(sb_cur.data) + 2 + 2 > sb_size
    /\ sb_first_key = sb_in[Len(sb_in)].key

\* A block in flight that holds two entries, after an earlier block was
\* finalized: first_key is not the key added last
InFlightHoldsTwo ==
    /\ sb_pc = "building"
    /\ sb_meta # <<>>
    /\ Len(sb_cur.offsets) = 2
    /\ sb_first_key # sb_in[Len(sb_in)].key

-----------------------------------------------------------------------------
\* Claims about SsTableBuilder::build

\* The number of non-empty blocks the entries ents[i..] form at target size
\* size, when the block in flight holds n entries in dlen bytes of data
RECURSIVE BlocksFormed(_, _, _, _, _)
BlocksFormed(ents, i, dlen, n, size) ==
    IF i > Len(ents) THEN (IF n > 0 THEN 1 ELSE 0)
    ELSE LET elen == 2 + Len(ents[i].key) + 2 + Len(ents[i].value)
         IN IF n > 0 /\ dlen + (2 * n) + 2 + elen + 2 > size
            THEN 1 + BlocksFormed(ents, i + 1, elen, 1, size)
            ELSE BlocksFormed(ents, i + 1, dlen + elen, n + 1, size)

\* build returned a table whose meta offset is the length of the encoded
\* blocks and that has one BlockMeta per non-empty block formed
BuildReturned ==
    sb_pc = "built" =>
        /\ sst.block_meta_offset = Len(sb_data)
        /\ SubSeq(sst.file, 1, sst.block_meta_offset) = sb_data
        /\ NumOfBlocks(sst) = BlocksFormed(sb_in, 1, 0, 0, sb_size)

\* C23: after any sequence of zero or more adds, build does not end in a fatal
\* error, and the table it returns has its meta offset at the total length of
\* the encoded blocks and as many blocks as non-empty blocks were formed.
C23_BuildNeverFatal ==
    /\ sb_pc # "panicked"
    /\ BuildReturned

\* What the code keeps of it: build after at least one add
BuildAfterAddReturns ==
    /\ sb_in # <<>> => sb_pc # "panicked"
    /\ BuildReturned

\* build on a builder that no add was made on ended in the panic of
\* BlockBuilder::build
BuildOfNothingPanicked ==
    /\ sb_pc = "panicked"
    /\ sb_in = <<>>

-----------------------------------------------------------------------------
\* Claims about MemTable::flush

\* The memtable after the puts of the log puts: each key put, once, in
\* increasing key order, with the value of its last put
TableAfter(puts) ==
    LET ks == SortedKeys(KeysOf(puts))
    IN [j \in 1..Len(ks) |-> [key |-> ks[j], value |-> LastPut(puts, ks[j]).value]]

\* No put was made since flush was called
NoPutSinceFlush == Len(mt_puts) = ms_at

\* C24: flush gives builder.add the entries of the memtable in strictly
\* increasing key order.  With no put since flush was called, what was given
\* so far is a prefix of the table's entries (each key once, with its last
\* value), the iterator stands on the next one to give, and when flush has
\* returned every entry was given exactly once and nothing else; the table
\* built from the builder then scans to that same sequence, the one an
\* unbounded scan of the memtable reads.  No add panics.
C24_FlushForwardsAll ==
    ms_pc \in {"flushing", "flushed"} =>
        /\ StrictlySorted(sb_in)
        /\ sb_pc = "panicked" => sb_in = <<>>
        /\ NoPutSinceFlush =>
             LET table == TableAfter(mt_puts)
             IN /\ Len(sb_in) <= Len(table)
                /\ sb_in = SubSeq(table, 1, Len(sb_in))
                /\ (ms_pc = "flushing" /\ MsIsValid(ms_it)) =>
                       /\ Len(sb_in) < Len(table)
                       /\ ms_it.item = table[Len(sb_in) + 1]
                /\ (ms_pc = "flushed" \/ ~MsIsValid(ms_it)) => sb_in = table
                /\ (si_scan /\ ~SiIsValid(si)) =>
                       /\ si_pc = "live"
                       /\ si_out = table
                       /\ si_out = ms_out

\* A table of two keys, one of them put twice, flushed with no put since, and
\* the table built from it scanned to its end
C24_Witness ==
    /\ ms_pc = "flushed"
    /\ NoPutSinceFlush
    /\ Len(mt_puts) = 3
    /\ Len(sb_in) = 2
    /\ sb_pc = "built"
    /\ si_scan
    /\ si_pc = "live"
    /\ ~SiIsValid(si)
    /\ Len(si_out) = 2

\* A flush during which a put was made: the builder got an entry that was
\* not in the table when flush was called
FlushSawLaterPut ==
    /\ ms_pc = "flushed"
    /\ \E i \in DOMAIN sb_in : sb_in[i] \notin Range(ms_map0)

-----------------------------------------------------------------------------
\* Claims about what the N-way merge delivers

\* The keys of all inputs
AllInputKeys == UNION {KeysOf(mi_in[i]) : i \in DOMAIN mi_in}

\* The inputs of the merge set: current and the heap
MergeSet == mi_heap \cup (IF mi_cur = NoCur THEN {} ELSE {mi_cur.src})

\* The keys input i has yet to pass: those at its position and after it
KeysAhead(i) == {mi_in[i][j].key : j \in mi_pos[i]..Len(mi_in[i])}

\* C25: while no input has returned an error, the N-way merge loses no entry:
\* every key of an input was delivered or is still ahead of an input of the
\* merge set, and only keys of the inputs are delivered; when the merge
\* iterator is invalid (after create or after a next()) the heap is empty,
\* every input is exhausted, and the keys delivered are the union of the key
\* sets of the inputs.
C25_MergeLosesNothing ==
    (mi_pc = "created" /\ mi_failed = {}) =>
        /\ KeysOf(mi_out) \subseteq AllInputKeys
        /\ \A k \in AllInputKeys \ KeysOf(mi_out) :
              \E i \in MergeSet : k \in KeysAhead(i)
        /\ ~MiIsValid(mi_cur, mi_pos) =>
              /\ mi_heap = {}
              /\ \A i \in DOMAIN mi_in : ~ItValid(mi_in[i], mi_pos[i])
              /\ KeysOf(mi_out) = AllInputKeys

\* A drained merge in which a later input held a key after one it shares
\* with an earlier input: that input went through the duplicate-skipping loop
\* and delivered its second key
C25_Witness ==
    /\ mi_pc = "created"
    /\ mi_failed = {}
    /\ ~MiIsValid(mi_cur, mi_pos)
    /\ Len(mi_out) = 2
    /\ \E i, j \in DOMAIN mi_in :
          /\ i < j
          /\ Len(mi_in[i]) = 1
          /\ Len(mi_in[j]) = 2
          /\ mi_in[i][1].key = mi_in[j][1].key
          /\ mi_out[2] = mi_in[j][2]

-----------------------------------------------------------------------------
\* Claims about the termination of the N-way merge

\* The sum of the positions of the inputs
RECURSIVE TotalPos(_)
TotalPos(pos) == IF pos = <<>> THEN 0 ELSE Head(pos) + TotalPos(Tail(pos))

\* The merge iterator was created and is invalid
MergeDrained == mi_pc = "created" /\ ~MiIsValid(mi_cur, mi_pos)

\* C26: over finite inputs that never return an error, every next() ends
\* having moved at least one input forward and none backward, each input by
\* one entry at most (so the loop makes no more passes than there are heap
\* iterators), and delivers at most one entry; a caller that goes on calling
\* next() while the iterator is valid reaches an invalid iterator, and by then
\* as many entries were delivered as there are distinct keys in the inputs.
C26_MergeDrainTerminates ==
    /\ [][mi_pc = "created" =>
            /\ TotalPos(mi_pos') > TotalPos(mi_pos)
            /\ \A i \in DOMAIN mi_pos : mi_pos'[i] \in {mi_pos[i], mi_pos[i] + 1}
            /\ mi_pos'[mi_cur.src] = mi_pos[mi_cur.src] + 1
            /\ Len(mi_out') <= Len(mi_out) + 1]_vars
    /\ <>MergeDrained
    /\ [](MergeDrained => Len(mi_out) = Cardinality(AllInputKeys))

\* Three inputs that each hold the same two keys, drained: six entries went
\* by, two were delivered
C26_Witness ==
    /\ MergeDrained
    /\ Len(mi_in) = 3
    /\ \A i \in 1..3 : Len(mi_in[i]) = 2
    /\ TotalPos(mi_pos) = 9
    /\ Len(mi_out) = 2

-----------------------------------------------------------------------------
\* Claims about the u16 fields of a block

\* The byte position in data of entry i of the entries ents: the lengths of
\* the entries before it, each with its two length fields
RECURSIVE TruePos(_, _)
TruePos(ents, i) ==
    IF i = 1 THEN 0
    ELSE TruePos(ents, i - 1)
           + 2 + Len(ents[i - 1].key) + 2 + Len(ents[i - 1].value)

\* The key_len and value_len fields stored for entry i, read where the entry
\* lies in data
StoredKeyLen(i) == GetU16(bb_data, TruePos(bb_ents, i) + 1)
StoredValueLen(i) ==
    GetU16(bb_data, TruePos(bb_ents, i) + 2 + Len(bb_ents[i].key) + 1)

\* The offsets and length fields of the block under construction are exact
FieldsExact ==
    /\ Len(bb_offsets) = Len(bb_ents)
    /\ bb_offsets # <<>> => bb_offsets[1] = 0
    /\ \A i \in 1..(Len(bb_offsets) - 1) : bb_offsets[i] < bb_offsets[i + 1]
    /\ \A i \in 1..Len(bb_ents) :
          /\ bb_offsets[i] = TruePos(bb_ents, i)
          /\ StoredKeyLen(i) = Len(bb_ents[i].key)
          /\ StoredValueLen(i) = Len(bb_ents[i].value)

\* C27: in every block BlockBuilder builds, at every target size and for
\* every key and value length add accepts (a first entry larger than the
\* target included), Offsets[i] is the byte position of entry i in data,
\* Offsets starts at 0 and strictly increases, and the stored key_len and
\* value_len are the lengths of the key and the value: the casts to u16 change
\* no value.
C27_U16FieldsExact == FieldsExact

\* What the code keeps of it: the fields are exact while every entry's key and
\* value are shorter than WideLen bytes and every entry starts below WideLen
FieldsExactBelowU16 ==
    (\A i \in 1..Len(bb_ents) :
        /\ Len(bb_ents[i].key) < WideLen
        /\ Len(bb_ents[i].value) < WideLen
        /\ TruePos(bb_ents, i) < WideLen)
    => FieldsExact

\* A first entry with a value of WideLen bytes was accepted, at a target size
\* it exceeds, and its value_len field holds 0
ValueLenTruncated ==
    /\ Len(bb_ents) = 1
    /\ bb_size = SmallBlockSize
    /\ Len(bb_ents[1].value) = WideLen
    /\ StoredValueLen(1) = 0

\* A second entry lies more than WideLen bytes into data and its offset holds
\* what is left of its position modulo WideLen
OffsetTruncated ==
    /\ Len(bb_ents) = 2
    /\ TruePos(bb_ents, 2) > WideLen
    /\ bb_offsets[2] = TruePos(bb_ents, 2) - WideLen

=============================================================================
